---------------------------- MODULE Spec2Model ----------------------------
(***************************************************************************)
(* A model of the language-tutor glue layer: the Dialogue model, the LLM   *)
(* response parser, the file import/export service, the audio service and  *)
(* the dialogue service's parameter validation.                            *)
(*                                                                         *)
(* Text is modelled at character level: a Python str is a sequence of      *)
(* one-character strings, so that strip/split/lower/"in" are computed the  *)
(* way the code computes them.  An Optional[T] value is <<>> for None and  *)
(* <<v>> for a value v.  A datetime is a natural number read from the      *)
(* clock `now`.                                                            *)
(***************************************************************************)
EXTENDS Integers, Sequences, FiniteSets, TLC

VARIABLES
    dialogue,     \* the Dialogue object the session holds
    now,          \* the wall clock read by datetime.now()
    audio_dir,    \* the directory audio_output: file name -> [created_at, text]
    json_file,    \* content of the exported JSON file (None when absent)
    text_file,    \* content of the exported text file (None when absent)
    imported,     \* the Dialogue returned by the last import (None when none)
    tts_calls,    \* synthesize_speech requests made by the last operation
    llm_calls,    \* requests the last operation sent to the LLM provider
    config,       \* the AppConfig the services were constructed from
    op,           \* name of the last operation called
    args,         \* its arguments
    result,       \* [raised, value]: whether it raised, and its return value
    prev,         \* the operation called before it, and whether that one raised
    session       \* st.session_state of practice mode

vars == <<dialogue, now, audio_dir, json_file, text_file, imported,
          tts_calls, llm_calls, config, op, args, result, prev, session>>

----------------------------------------------------------------------------
(* Bounds of the model *)

MaxMsgs == 2      \* add_message is called while the dialogue is shorter
MaxClock == 4     \* operations are called while now < MaxClock
MaxFiles == 4     \* files of the audio directory drawn for retention cleanup
MaxCtime == 1     \* latest creation time of a drawn file
MaxCap == 3       \* largest max_files and max_dialogue_length drawn
MaxHistory == 7   \* longest dialogue drawn for continue_dialogue
MaxLines == 2     \* most lines of a text drawn for the parsers

----------------------------------------------------------------------------
(* Optional values and outcomes *)

None == <<>>
Some(x) == <<x>>

\* the outcome of a call: a normal return of v, or an exception
Return(v) == [raised |-> FALSE, value |-> v]
Raise == [raised |-> TRUE, value |-> None]

----------------------------------------------------------------------------
(* Python str operations on character sequences *)

NL == "\n"

UpperChars == <<"A","B","C","D","E","F","G","H","I","J","K","L","M",
                "N","O","P","Q","R","S","T","U","V","W","X","Y","Z">>
LowerChars == <<"a","b","c","d","e","f","g","h","i","j","k","l","m",
                "n","o","p","q","r","s","t","u","v","w","x","y","z">>

IsSpace(c) == c \in {" ", NL}

RECURSIVE LStrip(_)
LStrip(s) == IF s # <<>> /\ IsSpace(Head(s)) THEN LStrip(Tail(s)) ELSE s

RECURSIVE RStrip(_)
RStrip(s) ==
    IF s # <<>> /\ IsSpace(s[Len(s)])
    THEN RStrip(SubSeq(s, 1, Len(s) - 1))
    ELSE s

\* str.strip()
Strip(s) == RStrip(LStrip(s))

\* c in s, for a single character c
Contains(s, c) == \E i \in 1..Len(s) : s[i] = c

\* index of the first occurrence of c in s (c occurs in s)
Find(s, c) == CHOOSE i \in 1..Len(s) :
                  s[i] = c /\ \A j \in 1..(i - 1) : s[j] # c

\* s.split(c, 1) when c occurs in s
Split1(s, c) ==
    LET i == Find(s, c)
    IN  <<SubSeq(s, 1, i - 1), SubSeq(s, i + 1, Len(s))>>

\* s.split("\n")
RECURSIVE SplitLines(_)
SplitLines(s) ==
    IF Contains(s, NL)
    THEN <<Split1(s, NL)[1]>> \o SplitLines(Split1(s, NL)[2])
    ELSE <<s>>

\* "\n".join(lines)
RECURSIVE JoinLines(_)
JoinLines(lines) ==
    IF lines = <<>> THEN <<>>
    ELSE IF Len(lines) = 1 THEN lines[1]
    ELSE lines[1] \o <<NL>> \o JoinLines(Tail(lines))

LowerChar(c) ==
    IF \E i \in 1..Len(UpperChars) : UpperChars[i] = c
    THEN LowerChars[CHOOSE i \in 1..Len(UpperChars) : UpperChars[i] = c]
    ELSE c

\* str.lower()
Lower(s) == [i \in 1..Len(s) |-> LowerChar(s[i])]

\* w in s, for a word w
HasSub(w, s) ==
    \E i \in 1..(Len(s) - Len(w) + 1) : SubSeq(s, i, i + Len(w) - 1) = w

\* any(word in s for word in words)
AnyWordIn(words, s) == \E w \in words : HasSub(w, s)

\* seq[k:] of Python
SliceFrom(seq, k) ==
    IF k >= 0 THEN SubSeq(seq, k + 1, Len(seq))
    ELSE SubSeq(seq, (IF Len(seq) + k > 0 THEN Len(seq) + k ELSE 0) + 1, Len(seq))

----------------------------------------------------------------------------
(* String literals *)

s_Title == <<"T","i","t","l","e",":"," ">>
s_Context == <<"C","o","n","t","e","x","t",":"," ">>
s_Level == <<"L","e","v","e","l",":"," ">>
s_Utilisateur == <<"U","t","i","l","i","s","a","t","e","u","r">>
s_Assistant == <<"A","s","s","i","s","t","a","n","t">>
s_ColonSpace == <<":"," ">>

s_beginner == <<"b","e","g","i","n","n","e","r">>
s_intermediate == <<"i","n","t","e","r","m","e","d","i","a","t","e">>
s_advanced == <<"a","d","v","a","n","c","e","d">>

s_user == <<"u","s","e","r">>
s_utilisateur == <<"u","t","i","l","i","s","a","t","e","u","r">>
s_client == <<"c","l","i","e","n","t">>
s_etudiant == <<"é","t","u","d","i","a","n","t">>
s_assistant == <<"a","s","s","i","s","t","a","n","t">>
s_tuteur == <<"t","u","t","e","u","r">>
s_prof == <<"p","r","o","f">>
s_teacher == <<"t","e","a","c","h","e","r">>
s_system == <<"s","y","s","t","e","m">>

s_audio_output == <<"a","u","d","i","o","_","o","u","t","p","u","t","/">>
s_dialogue_ == <<"d","i","a","l","o","g","u","e","_">>
s_message == <<"_","m","e","s","s","a","g","e","_">>
s_msg_ == <<"m","s","g","_">>
s_wav == <<".","w","a","v">>
s_mp3 == <<".","m","p","3">>
s_m4a == <<".","m","4","a">>
s_txt == <<".","t","x","t">>
s_json == <<".","j","s","o","n">>
s_None == <<"N","o","n","e">>
s_export == <<"e","x","p","o","r","t">>
s_output == <<"o","u","t","p","u","t","/">>

DigitChars == <<"0","1","2","3","4","5","6","7","8","9">>

\* str(i) for 0 <= i <= 9
StrOfInt(i) == <<DigitChars[i + 1]>>

\* s.endswith(suffix)
EndsWith(s, suffix) ==
    /\ Len(s) >= Len(suffix)
    /\ SubSeq(s, Len(s) - Len(suffix) + 1, Len(s)) = suffix

\* s.startswith(prefix, i - 1): prefix occurs in s at index i
StartsWithAt(s, i, prefix) ==
    /\ i + Len(prefix) - 1 <= Len(s)
    /\ SubSeq(s, i, i + Len(prefix) - 1) = prefix

\* s.split(c, 1): two parts when c occurs in s, else the one part s
Split(s, c) == IF Contains(s, c) THEN Split1(s, c) ELSE <<s>>

\* "a, b = parts" raises ValueError unless parts has two elements
unpack_raises(parts) == Len(parts) # 2

\* seq[-1] raises IndexError on an empty list
last_raises(seq) == Len(seq) < 1

\* match.group(1) raises AttributeError when match is None
group_raises(match) == match = None

----------------------------------------------------------------------------
(* Regular expressions of the re module, as far as the code's patterns    *)
(* use them                                                                *)

\* \w: a letter, a digit or the underscore
IsWord(c) ==
    \/ \E i \in 1..Len(UpperChars) : UpperChars[i] = c \/ LowerChars[i] = c
    \/ \E i \in 1..Len(DigitChars) : DigitChars[i] = c
    \/ c \in {"_", "é"}

\* the first index from i on of a character satisfying Stop, Len(s) + 1
\* when there is none: where a run of the other characters ends
Until(s, i, Stop(_)) ==
    CHOOSE j \in i..(Len(s) + 1) :
        /\ j = Len(s) + 1 \/ Stop(s[j])
        /\ \A k \in i..(j - 1) : ~Stop(s[k])

\* where the run of white space from i on ends (\s*, taken greedily)
SkipSpace(s, i) == Until(s, i, LAMBDA c : ~IsSpace(c))

\* the greatest and the least element of a non-empty set of integers
Greatest(S) == CHOOSE x \in S : \A y \in S : y <= x
Least(S) == CHOOSE x \in S : \A y \in S : x <= y

----------------------------------------------------------------------------
(* models/dialogue.py *)

USER == "USER"
ASSISTANT == "ASSISTANT"
SYSTEM == "SYSTEM"
DialogueRole == {USER, ASSISTANT, SYSTEM}

\* DialogueRole.value
RoleValue(role) ==
    CASE role = USER -> s_user
      [] role = ASSISTANT -> s_assistant
      [] role = SYSTEM -> s_system

\* DialogueMessage(role=role, content=content): timestamp defaults to now(),
\* audio_file_path to None
DialogueMessage(role, content, t) ==
    [role |-> role, content |-> content, timestamp |-> Some(t),
     audio_file_path |-> None]

\* Dialogue(title=..., context=..., level=...): no id, no messages,
\* created_at = now(), updated_at = None
Dialogue(title, context, level, t) ==
    [id |-> None, title |-> title, context |-> context, level |-> level,
     messages |-> <<>>, created_at |-> t, updated_at |-> None]

\* mutant of add_message: the message is inserted first, not appended
add_message_prepend(d, role, content, t) ==
    [d EXCEPT !.messages = <<DialogueMessage(role, content, t)>> \o @,
              !.updated_at = Some(t)]

add_message(d, role, content, t) ==
    [d EXCEPT !.messages = Append(@, DialogueMessage(role, content, t)),
              !.updated_at = Some(t)]

get_messages_by_role(d, role) ==
    SelectSeq(d.messages, LAMBDA m : m.role = role)

\* Python truthiness of an Optional[str]
Truthy(o) == o # None /\ o[1] # <<>>

to_text(d) ==
    LET header == <<s_Title \o d.title>>
                  \o (IF Truthy(d.context)
                      THEN <<s_Context \o d.context[1]>> ELSE <<>>)
                  \o <<s_Level \o d.level, <<>>>>
        body == [i \in 1..Len(d.messages) |->
                    (IF d.messages[i].role = USER
                     THEN s_Utilisateur ELSE s_Assistant)
                    \o s_ColonSpace \o d.messages[i].content]
    IN  JoinLines(header \o body)

\* the sequence of (role, content) pairs of a dialogue
Pairs(d) == [i \in 1..Len(d.messages) |->
                <<d.messages[i].role, d.messages[i].content>>]

----------------------------------------------------------------------------
(* models/config.py *)

OPENAI == "openai"
GEMINI == "gemini"
LLMProvider == {OPENAI, GEMINI}

GOOGLE_CLOUD == "google_cloud"
AZURE == "azure"
WHISPERSPEECH == "whisperspeech"
GTTS == "gtts"
TTSProvider == {GOOGLE_CLOUD, AZURE, WHISPERSPEECH, GTTS}

\* AppConfig, with the fields the services read; keys takes the values of
\* the four Optional[str] credentials, lengths those of max_dialogue_length
AppConfig(keys, lengths) ==
    [llm_provider : LLMProvider,
     openai_api_key : keys,
     gemini_api_key : keys,
     tts_provider : TTSProvider,
     google_cloud_credentials_path : keys,
     azure_speech_key : keys,
     azure_speech_region : keys,
     max_dialogue_length : lengths]

----------------------------------------------------------------------------
(* api/llm_client.py: the LLM response parser (the OpenAI and the Gemini  *)
(* client carry the same code)                                             *)

\* mutant of parse_response_line: the content is the untrimmed text after
\* the first colon
parse_response_line_untrimmed(d, rawline, t) ==
    LET line == Strip(rawline)
    IN  IF Contains(line, ":")
        THEN add_message(d,
                         IF Contains(Split1(line, ":")[1], "A")
                         THEN USER ELSE ASSISTANT,
                         Split1(line, ":")[2], t)
        ELSE d

\* one iteration of the loop over the lines of the response
parse_response_line(d, rawline, t) ==
    LET line == Strip(rawline)
    IN  IF Contains(line, ":")
        THEN LET speaker == Split1(line, ":")[1]
                 content == Strip(Split1(line, ":")[2])
                 role == IF Contains(speaker, "A") THEN USER ELSE ASSISTANT
             IN  add_message(d, role, content, t)
        ELSE d

RECURSIVE parse_response_lines(_, _, _)
parse_response_lines(d, lines, t) ==
    IF lines = <<>> THEN d
    ELSE parse_response_lines(parse_response_line(d, Head(lines), t),
                              Tail(lines), t)

parse_dialogue_response(dialogue_text, topic, context, level, t) ==
    parse_response_lines(Dialogue(topic, context, level, t),
                         SplitLines(Strip(dialogue_text)), t)

\* mutant of response_line_raises: the line is split without the test
\* ":" in line
response_line_raises_unguarded(rawline) ==
    unpack_raises(Split(Strip(rawline), ":"))

\* whether an iteration of the parser's loop raises: the two parts of the
\* split are unpacked only when the line holds a colon
response_line_raises(rawline) ==
    /\ Contains(Strip(rawline), ":")
    /\ unpack_raises(Split(Strip(rawline), ":"))

\* whether _parse_dialogue_response raises
parse_response_raises(dialogue_text) ==
    \E i \in 1..Len(SplitLines(Strip(dialogue_text))) :
        response_line_raises(SplitLines(Strip(dialogue_text))[i])

\* _create_system_prompt: the fixed text with the level and, when the
\* context is given and not empty, the context
create_system_prompt(level, context) ==
    [level |-> level, context |-> IF Truthy(context) THEN context ELSE None]

\* the user prompt of generate_dialogue: the fixed text with the topic, the
\* number of exchanges and the level
generate_dialogue_request(provider, topic, context, level, num_exchanges) ==
    [provider |-> provider,
     method |-> "generate_dialogue",
     system_prompt |-> create_system_prompt(level, context),
     topic |-> topic,
     num_exchanges |-> num_exchanges,
     level |-> level]

\* the number of last messages continue_dialogue sends as context
ContextWindow == 6

\* mutant of history_window: the whole dialogue is sent
history_window_all(d) == d.messages

\* dialogue.messages[-6:]
history_window(d) == SliceFrom(d.messages, 0 - ContextWindow)

\* OpenAIClient.continue_dialogue: the chat messages of the request
openai_continue_request(d, user_input) ==
    LET history == history_window(d)
    IN  [provider |-> OPENAI,
         method |-> "continue_dialogue",
         messages |->
             <<[role |-> "system",
                content |-> create_system_prompt(d.level, d.context)]>>
             \o [i \in 1..Len(history) |->
                    [role |-> IF history[i].role = USER
                              THEN "user" ELSE "assistant",
                     content |-> history[i].content]]
             \o <<[role |-> "user", content |-> user_input]>>]

\* the text conversation_history of GeminiClient.continue_dialogue, from
\* message i of the window on
RECURSIVE conversation_history(_, _)
conversation_history(history, i) ==
    IF i > Len(history) THEN <<>>
    ELSE (IF history[i].role = USER THEN s_Utilisateur ELSE s_Assistant)
         \o s_ColonSpace \o history[i].content \o <<NL>>
         \o conversation_history(history, i + 1)

\* GeminiClient.continue_dialogue: the parts of the prompt of the request
gemini_continue_request(d, user_input) ==
    [provider |-> GEMINI,
     method |-> "continue_dialogue",
     system_prompt |-> create_system_prompt(d.level, d.context),
     conversation_history |-> conversation_history(history_window(d), 1),
     user_input |-> user_input]

----------------------------------------------------------------------------
(* services/file_service.py *)

UserWords == {s_user, s_utilisateur, s_client, s_etudiant}
AssistantWords == {s_assistant, s_tuteur, s_prof, s_teacher}

\* mutant of AlternateRole: the last role of an empty dialogue is taken as
\* USER
AlternateRoleAssistantFirst(d) ==
    LET last_role == IF d.messages # <<>>
                     THEN d.messages[Len(d.messages)].role
                     ELSE USER
    IN  IF last_role = ASSISTANT THEN USER ELSE ASSISTANT

\* the role opposite to the last message's, ASSISTANT taken as the last role
\* of an empty dialogue
AlternateRole(d) ==
    LET last_role == IF d.messages # <<>>
                     THEN d.messages[Len(d.messages)].role
                     ELSE ASSISTANT
    IN  IF last_role = ASSISTANT THEN USER ELSE ASSISTANT

\* one iteration of the loop over the lines of a text file
parse_text_line(d, rawline, t) ==
    LET line == Strip(rawline)
    IN  IF line = <<>> THEN d
        ELSE IF Contains(line, ":")
        THEN LET speaker == Lower(Strip(Split1(line, ":")[1]))
                 message == Strip(Split1(line, ":")[2])
                 role == IF AnyWordIn(UserWords, speaker) THEN USER
                         ELSE IF AnyWordIn(AssistantWords, speaker)
                         THEN ASSISTANT
                         ELSE AlternateRole(d)
             IN  add_message(d, role, message, t)
        ELSE add_message(d, AlternateRole(d), line, t)

RECURSIVE parse_text_lines(_, _, _)
parse_text_lines(d, lines, t) ==
    IF lines = <<>> THEN d
    ELSE parse_text_lines(parse_text_line(d, Head(lines), t), Tail(lines), t)

parse_text_dialogue(content, filename, t) ==
    parse_text_lines(Dialogue(filename, None, s_beginner, t),
                     SplitLines(Strip(content)), t)

\* whether the alternation raises: dialogue.messages[-1] is read only when
\* the list is not empty
alternate_raises(d) == d.messages # <<>> /\ last_raises(d.messages)

\* whether an iteration of the text parser's loop raises
text_line_raises(d, rawline) ==
    LET line == Strip(rawline)
    IN  /\ line # <<>>
        /\ IF Contains(line, ":")
           THEN \/ unpack_raises(Split(line, ":"))
                \/ /\ ~AnyWordIn(UserWords \cup AssistantWords,
                                  Lower(Strip(Split(line, ":")[1])))
                   /\ alternate_raises(d)
           ELSE alternate_raises(d)

RECURSIVE text_lines_raise(_, _, _)
text_lines_raise(d, lines, t) ==
    /\ lines # <<>>
    /\ \/ text_line_raises(d, Head(lines))
       \/ text_lines_raise(parse_text_line(d, Head(lines), t), Tail(lines), t)

\* whether _parse_text_dialogue raises
parse_text_raises(content, filename, t) ==
    text_lines_raise(Dialogue(filename, None, s_beginner, t),
                     SplitLines(Strip(content)), t)

\* re.match(r"^#\s+(.+)$", content, re.MULTILINE): group 1, or None.  \s+
\* gives white space back until a character of the same line follows it.
title_match(content) ==
    IF content = <<>> \/ content[1] # "#" THEN None
    ELSE LET e == SkipSpace(content, 2)
             K == {k \in 1..(e - 2) :
                      k + 2 <= Len(content) /\ content[k + 2] # NL}
         IN  IF K = {} THEN None
             ELSE Some(SubSeq(content, Greatest(K) + 2,
                              Until(content, Greatest(K) + 2,
                                    LAMBDA c : c = NL) - 1))

s_md_level == <<"*","*","l","e","v","e","l",":","*","*">>
s_md_niveau == <<"*","*","n","i","v","e","a","u",":","*","*">>
s_md_context == <<"*","*","c","o","n","t","e","x","t",":","*","*">>
s_md_contexte == <<"*","*","c","o","n","t","e","x","t","e",":","*","*">>

\* the index after the label that occurs in content at index p, ignoring
\* case, or 0 when none of the labels occurs there
AfterLabel(content, p, labels) ==
    IF \E l \in labels : StartsWithAt(Lower(content), p, l)
    THEN p + Len(CHOOSE l \in labels : StartsWithAt(Lower(content), p, l))
    ELSE 0

\* re.search(r"\*\*(?:Level|Niveau):\*\*\s*(\w+)", content, re.IGNORECASE):
\* group 1, or None
level_match(content) ==
    LET Word(p) == SkipSpace(content, AfterLabel(content, p,
                                                 {s_md_level, s_md_niveau}))
        P == {p \in 1..Len(content) :
                 /\ AfterLabel(content, p, {s_md_level, s_md_niveau}) # 0
                 /\ Word(p) <= Len(content)
                 /\ IsWord(content[Word(p)])}
    IN  IF P = {} THEN None
        ELSE Some(SubSeq(content, Word(Least(P)),
                         Until(content, Word(Least(P)),
                               LAMBDA c : ~IsWord(c)) - 1))

s_md_rule == <<"-","-","-">>

\* re.search(r"\*\*(?:Context|Contexte):\*\*\s*(.+?)(?:\n\n|\n---|\Z)",
\* content, re.IGNORECASE | re.DOTALL): group 1, or None.  The group starts
\* after the white space and ends before the first blank line, rule or the
\* end; when only white space follows the label, it is its last character.
context_match(content) ==
    LET After(p) == AfterLabel(content, p, {s_md_context, s_md_contexte})
        Start(p) == SkipSpace(content, After(p))
        P == {p \in 1..Len(content) :
                 After(p) # 0 /\ After(p) <= Len(content)}
        End(q) == Least({j \in (q + 1)..(Len(content) + 1) :
                            \/ j = Len(content) + 1
                            \/ StartsWithAt(content, j, <<NL, NL>>)
                            \/ StartsWithAt(content, j, <<NL>> \o s_md_rule)})
    IN  IF P = {} THEN None
        ELSE IF Start(Least(P)) <= Len(content)
        THEN Some(SubSeq(content, Start(Least(P)), End(Start(Least(P))) - 1))
        ELSE Some(<<content[Len(content)]>>)

\* the match of r"\*{1,2}(.+?):\*{1,2}\s*(.+)" at the start of line with
\* a opening asterisks and the colon at index c: groups 1 and 2, or None
speaker_match_at(line, a, c) ==
    IF ~(/\ c >= a + 2
         /\ StartsWithAt(line, c, <<":", "*">>)
         /\ \A i \in 1..a : line[i] = "*")
    THEN None
    ELSE LET b == IF StartsWithAt(line, c + 2, <<"*">>) THEN 2 ELSE 1
             q == SkipSpace(line, c + 1 + b)
             speaker == SubSeq(line, a + 1, c - 1)
         IN  IF q <= Len(line)
             THEN Some(<<speaker, SubSeq(line, q, Len(line))>>)
             ELSE IF q > c + 1 + b
             THEN Some(<<speaker, <<line[Len(line)]>>>>)
             ELSE IF b = 2
             THEN Some(<<speaker, SubSeq(line, c + 2, Len(line))>>)
             ELSE None

\* re.match(r"\*{1,2}(.+?):\*{1,2}\s*(.+)", line): two asterisks are tried
\* before one, and the nearest colon first
speaker_match(line) ==
    LET C(a) == {c \in 1..Len(line) : speaker_match_at(line, a, c) # None}
    IN  IF C(2) # {} THEN speaker_match_at(line, 2, Least(C(2)))
        ELSE IF C(1) # {} THEN speaker_match_at(line, 1, Least(C(1)))
        ELSE None

\* the match of r"\*{1,2}(.+?)\*{1,2}" at the start of s: the group and the
\* index where the match ends, or None
emphasis_match(s) ==
    LET P(a) == {p \in (a + 2)..Len(s) :
                    s[p] = "*" /\ \A i \in 1..a : s[i] = "*"}
        m(a) == [group |-> SubSeq(s, a + 1, Least(P(a)) - 1),
                 end |-> IF StartsWithAt(s, Least(P(a)) + 1, <<"*">>)
                         THEN Least(P(a)) + 1 ELSE Least(P(a))]
    IN  IF P(2) # {} THEN Some(m(2))
        ELSE IF P(1) # {} THEN Some(m(1))
        ELSE None

\* the backquote character (which a TLA+ string cannot hold)
Backquote == "backquote"

\* the match of the pattern for code, a backquote, (.+?) and a backquote,
\* at the start of s
code_match(s) ==
    LET P == {p \in 3..Len(s) : s[1] = Backquote /\ s[p] = Backquote}
    IN  IF P = {} THEN None
        ELSE Some([group |-> SubSeq(s, 2, Least(P) - 1), end |-> Least(P)])

\* the match of r"\[(.+?)\]\(.+?\)" at the start of s
link_match(s) ==
    LET Q(p) == {q \in (p + 3)..Len(s) : s[q] = ")"}
        P == {p \in 3..Len(s) :
                 /\ s[1] = "["
                 /\ StartsWithAt(s, p, <<"]", "(">>)
                 /\ Q(p) # {}}
    IN  IF P = {} THEN None
        ELSE Some([group |-> SubSeq(s, 2, Least(P) - 1),
                   end |-> Least(Q(Least(P)))])

\* re.sub(pattern, r"\1", s) for the pattern whose match at the start of a
\* string Match gives: the matches are replaced from left to right
RECURSIVE sub_emphasis(_)
sub_emphasis(s) ==
    IF s = <<>> THEN <<>>
    ELSE IF emphasis_match(s) # None
    THEN emphasis_match(s)[1].group
         \o sub_emphasis(SubSeq(s, emphasis_match(s)[1].end + 1, Len(s)))
    ELSE <<Head(s)>> \o sub_emphasis(Tail(s))

RECURSIVE sub_code(_)
sub_code(s) ==
    IF s = <<>> THEN <<>>
    ELSE IF code_match(s) # None
    THEN code_match(s)[1].group
         \o sub_code(SubSeq(s, code_match(s)[1].end + 1, Len(s)))
    ELSE <<Head(s)>> \o sub_code(Tail(s))

RECURSIVE sub_links(_)
sub_links(s) ==
    IF s = <<>> THEN <<>>
    ELSE IF link_match(s) # None
    THEN link_match(s)[1].group
         \o sub_links(SubSeq(s, link_match(s)[1].end + 1, Len(s)))
    ELSE <<Head(s)>> \o sub_links(Tail(s))

s_student == <<"s","t","u","d","e","n","t">>
s_tutor == <<"t","u","t","o","r">>
s_level_colon == <<"l","e","v","e","l",":">>
s_context_colon == <<"c","o","n","t","e","x","t",":">>

MarkdownUserWords == UserWords \cup {s_student}
MarkdownAssistantWords == AssistantWords \cup {s_tutor}

\* the lines of a Markdown file that are skipped: empty lines, headings,
\* rules and the level and context metadata
markdown_skipped(line) ==
    \/ line = <<>>
    \/ StartsWithAt(line, 1, <<"#">>)
    \/ StartsWithAt(line, 1, s_md_rule)
    \/ HasSub(s_level_colon, Lower(line)) /\ HasSub(<<"*", "*">>, line)
    \/ HasSub(s_context_colon, Lower(line)) /\ HasSub(<<"*", "*">>, line)

\* the speaker and the message of a line that is not skipped, None when the
\* line has neither the Markdown nor the plain speaker format
markdown_speaker_message(line) ==
    IF speaker_match(line) # None
    THEN Some(<<Lower(Strip(speaker_match(line)[1][1])),
                Strip(speaker_match(line)[1][2])>>)
    ELSE IF Contains(line, ":")
    THEN Some(<<Lower(Strip(Split(line, ":")[1])),
                Strip(Split(line, ":")[2])>>)
    ELSE None

\* one iteration of the loop over the lines of a Markdown file
parse_markdown_line(d, rawline, t) ==
    LET line == Strip(rawline)
        sm == markdown_speaker_message(line)
    IN  IF markdown_skipped(line) \/ sm = None THEN d
        ELSE IF sm[1][2] = <<>> \/ sm[1][1] = <<>> THEN d
        ELSE add_message(
                 d,
                 IF AnyWordIn(MarkdownUserWords, sm[1][1]) THEN USER
                 ELSE IF AnyWordIn(MarkdownAssistantWords, sm[1][1])
                 THEN ASSISTANT
                 ELSE AlternateRole(d),
                 sub_links(sub_code(sub_emphasis(sm[1][2]))), t)

RECURSIVE parse_markdown_lines(_, _, _)
parse_markdown_lines(d, lines, t) ==
    IF lines = <<>> THEN d
    ELSE parse_markdown_lines(parse_markdown_line(d, Head(lines), t),
                              Tail(lines), t)

\* whether an iteration of the Markdown parser's loop raises: the groups
\* are read only of a match, the split is unpacked only of a line with a
\* colon
markdown_line_raises(d, rawline) ==
    LET line == Strip(rawline)
    IN  /\ ~markdown_skipped(line)
        /\ \/ speaker_match(line) # None /\ group_raises(speaker_match(line))
           \/ /\ speaker_match(line) = None
              /\ Contains(line, ":")
              /\ unpack_raises(Split(line, ":"))
           \/ /\ markdown_speaker_message(line) # None
              /\ markdown_speaker_message(line)[1][1] # <<>>
              /\ markdown_speaker_message(line)[1][2] # <<>>
              /\ ~AnyWordIn(MarkdownUserWords \cup MarkdownAssistantWords,
                            markdown_speaker_message(line)[1][1])
              /\ alternate_raises(d)

RECURSIVE markdown_lines_raise(_, _, _)
markdown_lines_raise(d, lines, t) ==
    /\ lines # <<>>
    /\ \/ markdown_line_raises(d, Head(lines))
       \/ markdown_lines_raise(parse_markdown_line(d, Head(lines), t),
                               Tail(lines), t)

\* whether _parse_markdown_dialogue raises: group(1) is read only of a match
parse_markdown_raises(content, filename, t) ==
    \/ title_match(content) # None /\ group_raises(title_match(content))
    \/ level_match(content) # None /\ group_raises(level_match(content))
    \/ context_match(content) # None /\ group_raises(context_match(content))
    \/ markdown_lines_raise(
           Dialogue(IF title_match(content) # None
                    THEN title_match(content)[1] ELSE filename,
                    IF context_match(content) # None
                    THEN Some(Strip(context_match(content)[1])) ELSE None,
                    IF level_match(content) # None
                    THEN Lower(level_match(content)[1]) ELSE s_beginner,
                    t),
           SplitLines(content), t)

parse_markdown_dialogue(content, filename, t) ==
    parse_markdown_lines(
        Dialogue(IF title_match(content) # None
                 THEN title_match(content)[1] ELSE filename,
                 IF context_match(content) # None
                 THEN Some(Strip(context_match(content)[1])) ELSE None,
                 IF level_match(content) # None
                 THEN Lower(level_match(content)[1]) ELSE s_beginner,
                 t),
        SplitLines(content), t)

\* datetime.isoformat()
isoformat(t) == <<"iso8601", t>>

\* the dictionary export_dialogue_to_json dumps
dialogue_data(d) ==
    [id |-> d.id,
     title |-> d.title,
     context |-> d.context,
     level |-> d.level,
     created_at |-> isoformat(d.created_at),
     updated_at |-> IF d.updated_at # None
                    THEN Some(isoformat(d.updated_at[1])) ELSE None,
     messages |-> [i \in 1..Len(d.messages) |->
                     [role |-> RoleValue(d.messages[i].role),
                      content |-> d.messages[i].content,
                      timestamp |->
                          IF d.messages[i].timestamp # None
                          THEN Some(isoformat(d.messages[i].timestamp[1]))
                          ELSE None,
                      audio_file_path |-> d.messages[i].audio_file_path]]]

\* DialogueRole(value): defined for the three role values, ValueError otherwise
IsRoleValue(v) == \E r \in DialogueRole : RoleValue(r) = v
RoleOfValue(v) == CHOOSE r \in DialogueRole : RoleValue(r) = v

RECURSIVE import_messages(_, _, _)
import_messages(d, msgs, t) ==
    IF msgs = <<>> THEN d
    ELSE import_messages(
             add_message(d, RoleOfValue(Head(msgs).role),
                         Head(msgs).content, t),
             Tail(msgs), t)

\* the structured branch of import_dialogue_from_json, on the loaded data:
\* it raises when DialogueRole(msg_data["role"]) does
import_json_raises(data) ==
    \E i \in 1..Len(data.messages) : ~IsRoleValue(data.messages[i].role)

\* mutant of import_structured_json: the level of the file is not read
import_structured_json_default_level(data, t) ==
    import_messages(Dialogue(data.title, data.context, s_beginner, t),
                    data.messages, t)

import_structured_json(data, t) ==
    import_messages(Dialogue(data.title, data.context, data.level, t),
                    data.messages, t)

\* f"dialogue_{dialogue.id or 'export'}" + extension
export_filename(d, ext) ==
    s_dialogue_ \o (IF Truthy(d.id) THEN d.id[1] ELSE s_export) \o ext

----------------------------------------------------------------------------
(* services/audio_service.py and save_audio_file of api/tts_client_new.py  *)
(* The directory audio_output is a set of files [name, created_at, data].  *)

file_exists(dir, name) == \E f \in dir : f.name = name

\* os.path.join("audio_output", filename)
path_of(filename) == s_audio_output \o filename

\* the file name of a path under audio_output
name_of(path) == SubSeq(path, Len(s_audio_output) + 1, Len(path))

\* save_audio_file: writes (or overwrites) the file, returns its path
save_audio_file(dir, audio_data, filename, t) ==
    [dir |-> {f \in dir : f.name # filename}
             \cup {[name |-> filename, created_at |-> t, data |-> audio_data]},
     path |-> path_of(filename)]

IsAlnum(c) ==
    \/ \E i \in 1..Len(UpperChars) : UpperChars[i] = c \/ LowerChars[i] = c
    \/ \E i \in 1..Len(DigitChars) : DigitChars[i] = c
    \/ c = "é"

\* the file name derived from the first 50 characters of the text
safe_filename(text) ==
    RStrip(SelectSeq(SubSeq(text, 1, IF Len(text) < 50 THEN Len(text) ELSE 50),
                     LAMBDA c : IsAlnum(c) \/ c \in {" ", "-", "_"}))
    \o s_wav

\* mutant of generate_audio_for_text: a failed file write is swallowed and
\* the path is returned all the same
generate_audio_for_text_swallow(dir, text, voice_name, filename, outcome, t) ==
    LET call == [text |-> text, voice_name |-> voice_name,
                 synthesized |-> outcome # "tts_error",
                 saved |-> outcome = "ok"]
        fname == IF Truthy(filename) THEN filename[1] ELSE safe_filename(text)
        saved == save_audio_file(dir, [text |-> text, voice_name |-> voice_name],
                                 fname, t)
    IN  IF outcome = "ok"
        THEN [raised |-> FALSE, path |-> Some(saved.path), dir |-> saved.dir,
              call |-> call]
        ELSE IF outcome = "save_error"
        THEN [raised |-> FALSE, path |-> Some(saved.path), dir |-> dir,
              call |-> call]
        ELSE [raised |-> TRUE, path |-> None, dir |-> dir, call |-> call]

\* generate_audio_for_text with the outcome of its provider call and of its
\* file write: "ok", "tts_error" (synthesize_speech raises) or "save_error"
\* (save_audio_file raises)
generate_audio_for_text(dir, text, voice_name, filename, outcome, t) ==
    LET call == [text |-> text, voice_name |-> voice_name,
                 synthesized |-> outcome # "tts_error",
                 saved |-> outcome = "ok"]
        fname == IF Truthy(filename) THEN filename[1] ELSE safe_filename(text)
        saved == save_audio_file(dir, [text |-> text, voice_name |-> voice_name],
                                 fname, t)
    IN  IF outcome = "ok"
        THEN [raised |-> FALSE, path |-> Some(saved.path), dir |-> saved.dir,
              call |-> call]
        ELSE [raised |-> TRUE, path |-> None, dir |-> dir, call |-> call]

\* mutant of needs_audio: a message that already has audio is not skipped
needs_audio_ignoring_reference(m) == Strip(m.content) # <<>>

\* message i of the dialogue lacks audio and has non-blank content
needs_audio(m) == ~Truthy(m.audio_file_path) /\ Strip(m.content) # <<>>

\* f"dialogue_{dialogue.id}_message_{i}.wav", i counted from 0
message_filename(d, i) ==
    s_dialogue_ \o (IF d.id = None THEN s_None ELSE d.id[1])
    \o s_message \o StrOfInt(i) \o s_wav

\* mutant of speaker_voice: without a voice_name every message gets the
\* voice of the assistant
speaker_voice_single(voice_name, role) ==
    IF Truthy(voice_name) THEN voice_name ELSE Some(s_assistant)

\* speaker_voice = voice_name or message.role.value
speaker_voice(voice_name, role) ==
    IF Truthy(voice_name) THEN voice_name ELSE Some(RoleValue(role))

\* the loop of generate_audio_for_dialogue from message i (counted from 1) on;
\* st = [d, dir, calls, raised]; outcomes[i] is the outcome of the provider
\* call and file write for message i
RECURSIVE generate_audio_loop(_, _, _, _, _)
generate_audio_loop(st, i, voice_name, outcomes, t) ==
    IF st.raised \/ i > Len(st.d.messages) THEN st
    ELSE IF needs_audio(st.d.messages[i])
    THEN LET m == st.d.messages[i]
             r == generate_audio_for_text(
                      st.dir, m.content, speaker_voice(voice_name, m.role),
                      Some(message_filename(st.d, i - 1)), outcomes[i], t)
             call == [index |-> i, text |-> r.call.text,
                      voice_name |-> r.call.voice_name,
                      synthesized |-> r.call.synthesized,
                      saved |-> r.call.saved]
         IN  generate_audio_loop(
                 [d |-> IF r.raised THEN st.d
                        ELSE [st.d EXCEPT !.messages[i].audio_file_path = r.path],
                  dir |-> r.dir,
                  calls |-> Append(st.calls, call),
                  raised |-> r.raised],
                 i + 1, voice_name, outcomes, t)
    ELSE generate_audio_loop(st, i + 1, voice_name, outcomes, t)

\* mutant of generate_audio_for_dialogue: the call refreshes updated_at
generate_audio_for_dialogue_touch(d, dir, voice_name, outcomes, t) ==
    LET st == generate_audio_loop(
                  [d |-> d, dir |-> dir, calls |-> <<>>, raised |-> FALSE],
                  1, voice_name, outcomes, t)
    IN  [st EXCEPT !.d.updated_at = Some(t)]

\* mutant of generate_audio_for_dialogue: a call that fails gives back the
\* references the dialogue had before it
generate_audio_for_dialogue_rollback(d, dir, voice_name, outcomes, t) ==
    LET st == generate_audio_loop(
                  [d |-> d, dir |-> dir, calls |-> <<>>, raised |-> FALSE],
                  1, voice_name, outcomes, t)
    IN  IF st.raised THEN [st EXCEPT !.d = d] ELSE st

generate_audio_for_dialogue(d, dir, voice_name, outcomes, t) ==
    generate_audio_loop([d |-> d, dir |-> dir, calls |-> <<>>, raised |-> FALSE],
                        1, voice_name, outcomes, t)

\* cleanup_dialogue_audio: removes the file of every message whose file
\* exists and clears that message's reference
cleanup_dialogue_audio(d, dir) ==
    LET removed(i) == /\ Truthy(d.messages[i].audio_file_path)
                      /\ file_exists(dir, name_of(d.messages[i].audio_file_path[1]))
    IN  [d |-> [d EXCEPT !.messages =
                   [i \in 1..Len(d.messages) |->
                       IF removed(i)
                       THEN [d.messages[i] EXCEPT !.audio_file_path = None]
                       ELSE d.messages[i]]],
         dir |-> {f \in dir :
                     ~\E i \in 1..Len(d.messages) :
                         /\ removed(i)
                         /\ name_of(d.messages[i].audio_file_path[1]) = f.name}]

AudioExtensions == {s_mp3, s_wav, s_m4a}

\* mutant of insert_newest_first: the sort is oldest first (reverse=True left out)
RECURSIVE insert_oldest_first(_, _)
insert_oldest_first(sorted, f) ==
    IF sorted = <<>> THEN <<f>>
    ELSE IF Head(sorted).created_at <= f.created_at
    THEN <<Head(sorted)>> \o insert_oldest_first(Tail(sorted), f)
    ELSE <<f>> \o sorted

\* the stable sort of list_audio_files: newest first, ties in listing order
RECURSIVE insert_newest_first(_, _)
insert_newest_first(sorted, f) ==
    IF sorted = <<>> THEN <<f>>
    ELSE IF Head(sorted).created_at >= f.created_at
    THEN <<Head(sorted)>> \o insert_newest_first(Tail(sorted), f)
    ELSE <<f>> \o sorted

RECURSIVE sort_newest_first(_)
sort_newest_first(files) ==
    IF files = <<>> THEN <<>>
    ELSE insert_newest_first(
             sort_newest_first(SubSeq(files, 1, Len(files) - 1)),
             files[Len(files)])

\* list_audio_files; listing is the order in which os.listdir names the files
list_audio_files(dir, listing) ==
    sort_newest_first(
        SelectSeq([i \in 1..Len(listing) |->
                      CHOOSE f \in dir : f.name = listing[i]],
                  LAMBDA f : \E e \in AudioExtensions : EndsWith(f.name, e)))

\* delete_audio_file: [dir, ret]
delete_audio_file(dir, path) ==
    IF file_exists(dir, name_of(path))
    THEN [dir |-> {f \in dir : f.name # name_of(path)}, ret |-> TRUE]
    ELSE [dir |-> dir, ret |-> FALSE]

\* the deletion loop of cleanup_old_files: st = [dir, deleted_count]
RECURSIVE delete_files(_, _)
delete_files(st, files_to_delete) ==
    IF files_to_delete = <<>> THEN st
    ELSE LET r == delete_audio_file(st.dir, path_of(Head(files_to_delete).name))
         IN  delete_files([dir |-> r.dir,
                           deleted_count |-> st.deleted_count
                                             + (IF r.ret THEN 1 ELSE 0)],
                          Tail(files_to_delete))

cleanup_old_files(dir, listing, max_files) ==
    LET audio_files == list_audio_files(dir, listing)
    IN  IF Len(audio_files) <= max_files
        THEN [dir |-> dir, deleted_count |-> 0]
        ELSE delete_files([dir |-> dir, deleted_count |-> 0],
                          SliceFrom(audio_files, max_files))

----------------------------------------------------------------------------
(* services/dialogue_service.py *)

Levels == {s_beginner, s_intermediate, s_advanced}

e_topic == "Topic cannot be empty"
e_level == "Level must be 'beginner', 'intermediate', or 'advanced'"
e_exchanges == "Number of exchanges must be between 1 and max_dialogue_length"

\* mutant of validate_dialogue_parameters: num_exchanges = 0 passes
validate_dialogue_parameters_zero(topic, level, num_exchanges, max_dialogue_length) ==
    LET errors ==
            (IF ~Truthy(topic) \/ Strip(topic[1]) = <<>>
             THEN <<e_topic>> ELSE <<>>)
            \o (IF level \notin Levels THEN <<e_level>> ELSE <<>>)
            \o (IF num_exchanges < 0 \/ num_exchanges > max_dialogue_length
                THEN <<e_exchanges>> ELSE <<>>)
    IN  [valid |-> Len(errors) = 0, errors |-> errors]

\* topic is an Optional[str]: "not topic or not topic.strip()"
validate_dialogue_parameters(topic, level, num_exchanges, max_dialogue_length) ==
    LET errors ==
            (IF ~Truthy(topic) \/ Strip(topic[1]) = <<>>
             THEN <<e_topic>> ELSE <<>>)
            \o (IF level \notin Levels THEN <<e_level>> ELSE <<>>)
            \o (IF num_exchanges < 1 \/ num_exchanges > max_dialogue_length
                THEN <<e_exchanges>> ELSE <<>>)
    IN  [valid |-> Len(errors) = 0, errors |-> errors]

\* the largest default of num_exchanges
DefaultExchanges == 8

\* DialogueService.generate_dialogue: the number of exchanges it asks the
\* client for, min(max_dialogue_length, 8) when none is given
generate_dialogue_exchanges(cfg, num_exchanges) ==
    IF num_exchanges = None
    THEN IF cfg.max_dialogue_length < DefaultExchanges
         THEN cfg.max_dialogue_length ELSE DefaultExchanges
    ELSE num_exchanges[1]

\* get_dialogue_statistics (the rounded average length is left out)
get_dialogue_statistics(d) ==
    [total_messages |-> Len(d.messages),
     user_messages |-> Len(get_messages_by_role(d, USER)),
     assistant_messages |-> Len(get_messages_by_role(d, ASSISTANT)),
     level |-> d.level,
     topic |-> d.title,
     created_at |-> d.created_at,
     updated_at |-> d.updated_at]

----------------------------------------------------------------------------
(* services/dialogue_service.py, services/audio_service.py,                *)
(* config_manager.py: the checks of the credentials                        *)

\* mutant of create_llm_client: both keys are required, whichever provider
\* is selected
create_llm_client_both_keys(cfg) ==
    IF ~Truthy(cfg.openai_api_key) \/ ~Truthy(cfg.gemini_api_key)
    THEN Raise
    ELSE Return([provider |-> cfg.llm_provider,
                 api_key |-> IF cfg.llm_provider = OPENAI
                             THEN cfg.openai_api_key[1]
                             ELSE cfg.gemini_api_key[1]])

\* DialogueService._create_llm_client: the client of the selected provider,
\* or ValueError when its key is absent or empty
create_llm_client(cfg) ==
    IF cfg.llm_provider = OPENAI
    THEN IF ~Truthy(cfg.openai_api_key)
         THEN Raise
         ELSE Return([provider |-> OPENAI, api_key |-> cfg.openai_api_key[1]])
    ELSE IF cfg.llm_provider = GEMINI
    THEN IF ~Truthy(cfg.gemini_api_key)
         THEN Raise
         ELSE Return([provider |-> GEMINI, api_key |-> cfg.gemini_api_key[1]])
    ELSE Raise

\* mutant of create_tts_client: Google Cloud requires its credentials path
create_tts_client_google_path(cfg, client_fails) ==
    IF cfg.tts_provider = GOOGLE_CLOUD
    THEN IF ~Truthy(cfg.google_cloud_credentials_path) \/ client_fails
         THEN Raise ELSE Return([provider |-> GOOGLE_CLOUD])
    ELSE IF cfg.tts_provider = AZURE
    THEN IF ~Truthy(cfg.azure_speech_key) \/ ~Truthy(cfg.azure_speech_region)
         THEN Raise
         ELSE IF client_fails THEN Raise ELSE Return([provider |-> AZURE])
    ELSE IF client_fails THEN Raise
    ELSE Return([provider |-> cfg.tts_provider])

\* AudioService._create_tts_client: only Azure checks credentials; the
\* constructor of the client (module api/tts_client) fails or not with the
\* environment
create_tts_client(cfg, client_fails) ==
    IF cfg.tts_provider = GOOGLE_CLOUD
    THEN IF client_fails THEN Raise ELSE Return([provider |-> GOOGLE_CLOUD])
    ELSE IF cfg.tts_provider = AZURE
    THEN IF ~Truthy(cfg.azure_speech_key) \/ ~Truthy(cfg.azure_speech_region)
         THEN Raise
         ELSE IF client_fails THEN Raise ELSE Return([provider |-> AZURE])
    ELSE IF cfg.tts_provider = WHISPERSPEECH
    THEN IF client_fails THEN Raise ELSE Return([provider |-> WHISPERSPEECH])
    ELSE IF cfg.tts_provider = GTTS
    THEN IF client_fails THEN Raise ELSE Return([provider |-> GTTS])
    ELSE Raise

\* mutant of validate_config: the check of the TTS provider is part of the
\* branch of the Gemini provider
validate_config_nested(cfg) ==
    IF cfg.llm_provider = OPENAI
    THEN IF ~Truthy(cfg.openai_api_key) THEN Raise ELSE Return(TRUE)
    ELSE IF ~Truthy(cfg.gemini_api_key)
    THEN Raise
    ELSE IF /\ cfg.tts_provider = AZURE
            /\ ~Truthy(cfg.azure_speech_key) \/ ~Truthy(cfg.azure_speech_region)
    THEN Raise
    ELSE Return(TRUE)

\* ConfigManager.validate_config
validate_config(cfg) ==
    IF cfg.llm_provider = OPENAI /\ ~Truthy(cfg.openai_api_key)
    THEN Raise
    ELSE IF /\ cfg.llm_provider # OPENAI
            /\ cfg.llm_provider = GEMINI
            /\ ~Truthy(cfg.gemini_api_key)
    THEN Raise
    ELSE IF /\ cfg.tts_provider # GOOGLE_CLOUD
            /\ cfg.tts_provider = AZURE
            /\ ~Truthy(cfg.azure_speech_key) \/ ~Truthy(cfg.azure_speech_region)
    THEN Raise
    ELSE Return(TRUE)

----------------------------------------------------------------------------
(* services/stt_service.py: the outcome of each step is an input           *)

\* mutant of recognize_speech: a failed request gives None
recognize_speech_lenient(recognize, text) ==
    IF recognize = "text" THEN Return(Some(text))
    ELSE IF recognize \in {"unknown_value", "request_error"}
    THEN Return(None)
    ELSE Raise

\* STTService._recognize_speech: the text, None on UnknownValueError, an
\* exception on RequestError (wrapped) and on any other error
recognize_speech(recognize, text) ==
    IF recognize = "text" THEN Return(Some(text))
    ELSE IF recognize = "unknown_value" THEN Return(None)
    ELSE Raise

\* STTService.listen_for_speech: the microphone is opened, calibrated (an
\* error of the calibration is only printed), listened to, and the audio
\* is recognized; WaitTimeoutError gives None, any other error is raised
listen_for_speech(microphone, calibrate, listen, recognize, text) ==
    IF microphone = "error" THEN Raise
    ELSE IF listen = "timeout" THEN Return(None)
    ELSE IF listen = "error" THEN Raise
    ELSE recognize_speech(recognize, text)

\* STTService.recognize_from_file: the file is read and the audio is
\* recognized; every error is raised
recognize_from_file(file, recognize, text) ==
    IF file = "error" THEN Raise
    ELSE recognize_speech(recognize, text)

----------------------------------------------------------------------------
(* services/dialogue_service.py: ask_grammar_question                      *)

s_grammar_prompt == <<"Q","u","e","s","t","i","o","n",":"," ">>
s_error_from_llm == <<"[","E","r","r","o","r"," ","f","r","o","m"," ","L","L","M",":"," ">>
s_bracket == <<"]">>
s_no_attribute == <<"n","o"," ","a","t","t","r","i","b","u","t","e"," ","'","a","s","k","_","q","u","e","s","t","i","o","n","'">>

\* llm_client.ask_question(prompt): neither OpenAIClient nor GeminiClient
\* defines ask_question, the call raises AttributeError and no request
\* is sent to the provider
llm_client_ask_question(prompt) ==
    [raised |-> TRUE, value |-> None, message |-> s_no_attribute,
     sent |-> FALSE]

\* DialogueService.ask_grammar_question: the answer of the client, or the
\* bracketed message of the error of the call, returned as the answer
ask_grammar_question(question) ==
    LET call == llm_client_ask_question(s_grammar_prompt \o question)
    IN  IF call.raised
        THEN Return(s_error_from_llm \o call.message \o s_bracket)
        ELSE Return(call.value)

----------------------------------------------------------------------------
(* ui/streamlit_app.py: practice mode.  The session state holds            *)
(* practice_dialogue, practice_messages (the displayed history, a list of  *)
(* [role, content, audio_path]), the text of the input widget, the flag    *)
(* practice_input_to_process and practice_voice_result.                    *)

s_tmp == <<"t","m","p">>

\* the session state after the first rendering of the tab
NoPractice ==
    [practice_dialogue |-> None,
     practice_messages |-> <<>>,
     practice_text_input |-> <<>>,
     practice_input_to_process |-> FALSE,
     practice_voice_result |-> <<>>]

\* the button Start Practice Session: a new Dialogue and an empty history
start_practice_session(s, topic, level, t) ==
    [s EXCEPT !.practice_dialogue = Some(Dialogue(topic, None, level, t)),
              !.practice_messages = <<>>]

\* the content of the last message of the history whose role is "user",
\* None when there is none
last_user_msg(messages) ==
    IF \E i \in 1..Len(messages) : messages[i].role = s_user
    THEN Some(messages[Greatest({i \in 1..Len(messages) :
                                     messages[i].role = s_user})].content)
    ELSE None

\* the test of the processing pass: the input is not empty and differs from
\* the last message of the user
input_accepted(s) ==
    /\ s.practice_text_input # <<>>
    /\ \/ last_user_msg(s.practice_messages) = None
       \/ last_user_msg(s.practice_messages)[1] # s.practice_text_input

\* the history entry of a message ("audio_path" is absent of the entries of
\* the user)
practice_entry(role, content, audio_path) ==
    [role |-> RoleValue(role), content |-> content, audio_path |-> audio_path]

\* mutant of process_practice_input: the message of the user is added to
\* the Dialogue only after the LLM has answered
process_practice_input_late(s, response, llm_fails, audio_fails, t) ==
    LET user_input == s.practice_text_input
        d1 == add_message(s.practice_dialogue[1], USER, user_input, t)
        m1 == Append(s.practice_messages, practice_entry(USER, user_input, None))
        d2 == add_message(d1, ASSISTANT, response, t)
        m2 == Append(m1, practice_entry(ASSISTANT, response,
                             IF audio_fails THEN None ELSE Some(s_tmp)))
    IN  [s EXCEPT
            !.practice_dialogue =
                IF ~input_accepted(s) \/ llm_fails THEN @ ELSE Some(d2),
            !.practice_messages =
                IF ~input_accepted(s) THEN @
                ELSE IF llm_fails THEN m1 ELSE m2,
            !.practice_text_input = <<>>,
            !.practice_input_to_process = FALSE]

\* the processing pass: the accepted input is appended to the history and
\* to the Dialogue, the answer of continue_dialogue is appended to both
\* when the call returns, the input and the flag are cleared
process_practice_input(s, response, llm_fails, audio_fails, t) ==
    LET user_input == s.practice_text_input
        d1 == add_message(s.practice_dialogue[1], USER, user_input, t)
        m1 == Append(s.practice_messages, practice_entry(USER, user_input, None))
        d2 == add_message(d1, ASSISTANT, response, t)
        m2 == Append(m1, practice_entry(ASSISTANT, response,
                             IF audio_fails THEN None ELSE Some(s_tmp)))
    IN  [s EXCEPT
            !.practice_dialogue =
                IF ~input_accepted(s) THEN @
                ELSE IF llm_fails THEN Some(d1) ELSE Some(d2),
            !.practice_messages =
                IF ~input_accepted(s) THEN @
                ELSE IF llm_fails THEN m1 ELSE m2,
            !.practice_text_input = <<>>,
            !.practice_input_to_process = FALSE]

\* the request of the processing pass: continue_dialogue is called with the
\* Dialogue that already holds the input
practice_request(s, cfg, t) ==
    LET d1 == add_message(s.practice_dialogue[1], USER,
                          s.practice_text_input, t)
    IN  IF cfg.llm_provider = OPENAI
        THEN openai_continue_request(d1, s.practice_text_input)
        ELSE gemini_continue_request(d1, s.practice_text_input)

\* the run that handles the result of the voice input
handle_voice_result(s) ==
    [s EXCEPT !.practice_text_input = s.practice_voice_result,
              !.practice_input_to_process = TRUE,
              !.practice_voice_result = <<>>]

\* the run after a text was entered in the widget
submit_text(s, text) ==
    [s EXCEPT !.practice_text_input = text,
              !.practice_input_to_process = TRUE]

\* the button Record: the text heard, when there is one, is kept as
\* practice_voice_result
record_voice(s, heard) ==
    IF ~heard.raised /\ Truthy(heard.value)
    THEN [s EXCEPT !.practice_voice_result = heard.value[1]]
    ELSE s

----------------------------------------------------------------------------
(* Inputs *)

s_T == <<"T">>
s_Hi == <<"H","i">>
s_Yo == <<"Y","o">>
s_Blank == <<" ">>
s_cx == <<"c","x">>
s_d1 == <<"d","1">>
s_Beginner == <<"B","e","g","i","n","n","e","r">>

t_PersonneAB == <<"P","e","r","s","o","n","n","e"," ","A",":"," ",
                  "B","o","n","j","o","u","r","\n",
                  "P","e","r","s","o","n","n","e"," ","B",":"," ",
                  "S","a","l","u","t">>
t_EmptyContent == <<"P","e","r","s","o","n","n","e"," ","A",":">>
t_NoColon == <<"B","o","n","j","o","u","r">>
t_Colons == <<"B",":"," ","a",":","b","\n","\n"," ","A"," ",":"," ","Y","o"," ">>

\* message contents passed to add_message
Contents == {s_Hi, s_Yo, s_Blank}

\* texts the LLM provider answers with
LLMTexts == {t_PersonneAB, t_EmptyContent, t_NoColon, t_Colons}

Outcomes == {"ok", "tts_error", "save_error"}

s_key == <<"k">>

\* values of num_exchanges: none, 0, 1, max_dialogue_length and one more
ExchangeInputs == {None, Some(0), Some(1), Some(MaxCap), Some(MaxCap + 1)}

\* the configuration of the session: OpenAI with its key, gTTS
SessionConfig ==
    [llm_provider |-> OPENAI,
     openai_api_key |-> Some(s_key),
     gemini_api_key |-> None,
     tts_provider |-> GTTS,
     google_cloud_credentials_path |-> None,
     azure_speech_key |-> None,
     azure_speech_region |-> None,
     max_dialogue_length |-> MaxCap]

----------------------------------------------------------------------------
(* Operations.  Every call reads the clock once and takes one tick of it.  *)

Call(name, a) ==
    /\ now < MaxClock
    /\ now' = now + 1
    /\ op' = name
    /\ args' = a
    /\ prev' = <<op, result.raised>>
    /\ UNCHANGED <<config, session>>

\* a script run of practice mode: as Call, the session state is written
PracticeCall(name, a) ==
    /\ now < MaxClock
    /\ now' = now + 1
    /\ op' = name
    /\ args' = a
    /\ prev' = <<op, result.raised>>
    /\ UNCHANGED config

\* Dialogue.add_message
AddMessage(role, content) ==
    /\ Len(dialogue.messages) < MaxMsgs
    /\ Call("add_message", [role |-> role, content |-> content])
    /\ dialogue' = add_message(dialogue, role, content, now)
    /\ result' = Return(None)
    /\ tts_calls' = <<>>
    /\ llm_calls' = <<>>
    /\ UNCHANGED <<audio_dir, json_file, text_file, imported>>

\* DialogueService.generate_dialogue: the provider answers with a text, which
\* the client parses into the session's new dialogue, or the provider fails
GenerateDialogue(num_exchanges, text, fails) ==
    LET n == generate_dialogue_exchanges(config, num_exchanges)
    IN  /\ Call("generate_dialogue",
                [topic |-> s_T, level |-> s_beginner,
                 num_exchanges |-> num_exchanges])
        /\ llm_calls' = <<[response |-> IF fails THEN None ELSE Some(text)]
                           @@ generate_dialogue_request(
                                  config.llm_provider, s_T, None,
                                  s_beginner, n)>>
        /\ IF fails \/ parse_response_raises(text)
           THEN /\ result' = Raise
                /\ UNCHANGED dialogue
           ELSE /\ dialogue' = parse_dialogue_response(text, s_T, None,
                                                       s_beginner, now)
                /\ result' = Return(None)
        /\ tts_calls' = <<>>
    /\ UNCHANGED <<audio_dir, json_file, text_file, imported>>

\* DialogueService.continue_dialogue: returns the stripped answer or raises
ContinueDialogue(user_input, response, fails) ==
    /\ Call("continue_dialogue", [user_input |-> user_input])
    /\ llm_calls' = <<[response |-> IF fails THEN None ELSE Some(response)]
                       @@ IF config.llm_provider = OPENAI
                          THEN openai_continue_request(dialogue, user_input)
                          ELSE gemini_continue_request(dialogue, user_input)>>
    /\ result' = IF fails THEN Raise ELSE Return(Strip(response))
    /\ tts_calls' = <<>>
    /\ UNCHANGED <<dialogue, audio_dir, json_file, text_file, imported>>

\* DialogueService.get_dialogue_statistics
GetDialogueStatistics ==
    /\ Call("get_dialogue_statistics", <<>>)
    /\ result' = Return(get_dialogue_statistics(dialogue))
    /\ tts_calls' = <<>>
    /\ llm_calls' = <<>>
    /\ UNCHANGED <<dialogue, audio_dir, json_file, text_file, imported>>

\* AudioService.generate_audio_for_dialogue; the provider call or the file
\* write of message fail_at fails with `kind` (fail_at = 0: none fails)
GenerateAudioForDialogue(voice_name, fail_at, kind) ==
    LET outcomes == [i \in 1..Len(dialogue.messages) |->
                        IF i = fail_at THEN kind ELSE "ok"]
        st == generate_audio_for_dialogue(dialogue, audio_dir, voice_name,
                                          outcomes, now)
    IN  /\ Call("generate_audio_for_dialogue", [voice_name |-> voice_name])
        /\ dialogue' = st.d
        /\ audio_dir' = st.dir
        /\ tts_calls' = st.calls
        /\ llm_calls' = <<>>
        /\ result' = IF st.raised THEN Raise ELSE Return(None)
        /\ UNCHANGED <<json_file, text_file, imported>>

\* the per-message "Generate" button of the UI: generate_audio_for_text with
\* the file name msg_<i>.mp3, then the message's reference is set
GenerateAudioForMessage(i, outcome) ==
    LET m == dialogue.messages[i]
        r == generate_audio_for_text(
                 audio_dir, m.content, None,
                 Some(s_msg_ \o StrOfInt(i - 1) \o s_mp3), outcome, now)
    IN  /\ ~(/\ Truthy(m.audio_file_path)
             /\ file_exists(audio_dir, name_of(m.audio_file_path[1])))
        /\ Call("generate_audio_for_text", [index |-> i])
        /\ dialogue' = IF r.raised THEN dialogue
                       ELSE [dialogue EXCEPT !.messages[i].audio_file_path = r.path]
        /\ audio_dir' = r.dir
        /\ tts_calls' = <<[index |-> i, text |-> r.call.text,
                           voice_name |-> r.call.voice_name,
                           synthesized |-> r.call.synthesized,
                           saved |-> r.call.saved]>>
        /\ llm_calls' = <<>>
        /\ result' = IF r.raised THEN Raise ELSE Return(r.path)
        /\ UNCHANGED <<json_file, text_file, imported>>

\* AudioService.cleanup_dialogue_audio
CleanupDialogueAudio ==
    LET r == cleanup_dialogue_audio(dialogue, audio_dir)
    IN  /\ Call("cleanup_dialogue_audio", <<>>)
        /\ dialogue' = r.d
        /\ audio_dir' = r.dir
        /\ result' = Return(None)
        /\ tts_calls' = <<>>
        /\ llm_calls' = <<>>
        /\ UNCHANGED <<json_file, text_file, imported>>

\* FileService.export_dialogue_to_json
ExportJson ==
    /\ Call("export_dialogue_to_json", <<>>)
    /\ json_file' = Some([name |-> export_filename(dialogue, s_json),
                          data |-> dialogue_data(dialogue)])
    /\ result' = Return(s_output \o export_filename(dialogue, s_json))
    /\ tts_calls' = <<>>
    /\ llm_calls' = <<>>
    /\ UNCHANGED <<dialogue, audio_dir, text_file, imported>>

\* FileService.export_dialogue_to_text
ExportText ==
    /\ Call("export_dialogue_to_text", <<>>)
    /\ text_file' = Some([name |-> export_filename(dialogue, s_txt),
                          content |-> to_text(dialogue)])
    /\ result' = Return(s_output \o export_filename(dialogue, s_txt))
    /\ tts_calls' = <<>>
    /\ llm_calls' = <<>>
    /\ UNCHANGED <<dialogue, audio_dir, json_file, imported>>

\* FileService.import_dialogue_from_json on the exported file
ImportJson ==
    /\ Call("import_dialogue_from_json", <<>>)
    /\ IF json_file = None \/ import_json_raises(json_file[1].data)
       THEN /\ result' = Raise
            /\ UNCHANGED imported
       ELSE /\ imported' = Some(import_structured_json(json_file[1].data, now))
            /\ result' = Return(None)
    /\ tts_calls' = <<>>
    /\ llm_calls' = <<>>
    /\ UNCHANGED <<dialogue, audio_dir, json_file, text_file>>

\* FileService.import_dialogue_from_text on the exported file
ImportText ==
    /\ Call("import_dialogue_from_text", <<>>)
    /\ IF \/ text_file = None
          \/ parse_text_raises(text_file[1].content, text_file[1].name, now)
       THEN /\ result' = Raise
            /\ UNCHANGED imported
       ELSE /\ imported' = Some(parse_text_dialogue(text_file[1].content,
                                                    text_file[1].name, now))
            /\ result' = Return(None)
    /\ tts_calls' = <<>>
    /\ llm_calls' = <<>>
    /\ UNCHANGED <<dialogue, audio_dir, json_file, text_file>>

\* FileService.import_dialogue_from_markdown on the file
ImportMarkdown ==
    /\ Call("import_dialogue_from_markdown", <<>>)
    /\ IF \/ text_file = None
          \/ parse_markdown_raises(text_file[1].content, text_file[1].name,
                                   now)
       THEN /\ result' = Raise
            /\ UNCHANGED imported
       ELSE /\ imported' = Some(parse_markdown_dialogue(
                                    text_file[1].content, text_file[1].name,
                                    now))
            /\ result' = Return(None)
    /\ tts_calls' = <<>>
    /\ llm_calls' = <<>>
    /\ UNCHANGED <<dialogue, audio_dir, json_file, text_file>>

----------------------------------------------------------------------------
(* The session: a dialogue is generated, extended, given audio, exported   *)
(* and imported.                                                           *)

Idle ==
    /\ session = NoPractice
    /\ json_file = None
    /\ text_file = None
    /\ imported = None
    /\ tts_calls = <<>>
    /\ llm_calls = <<>>
    /\ op = "init"
    /\ args = <<>>
    /\ result = Return(None)
    /\ prev = <<"init", FALSE>>

Init ==
    /\ dialogue = Dialogue(s_T, None, s_beginner, 0)
    /\ now = 0
    /\ audio_dir = {}
    /\ config = SessionConfig
    /\ Idle

Next ==
    \/ \E role \in {USER, ASSISTANT}, content \in Contents :
           AddMessage(role, content)
    \/ \E num_exchanges \in ExchangeInputs, text \in LLMTexts :
           GenerateDialogue(num_exchanges, text, FALSE)
    \/ \E num_exchanges \in ExchangeInputs :
           GenerateDialogue(num_exchanges, t_NoColon, TRUE)
    \/ \E fails \in BOOLEAN : ContinueDialogue(s_Hi, s_Yo \o s_Blank, fails)
    \/ GetDialogueStatistics
    \/ \E fail_at \in 0..Len(dialogue.messages), kind \in {"tts_error", "save_error"} :
           /\ fail_at = 0 => kind = "tts_error"
           /\ GenerateAudioForDialogue(None, fail_at, kind)
    \/ \E i \in 1..Len(dialogue.messages), outcome \in Outcomes :
           GenerateAudioForMessage(i, outcome)
    \/ CleanupDialogueAudio
    \/ ExportJson
    \/ ExportText
    \/ ImportJson
    \/ ImportText

Spec == Init /\ [][Next]_vars

----------------------------------------------------------------------------
(* File export and import, on every Dialogue value of a bounded set: the   *)
(* dialogue is drawn, then exported and imported.                          *)

FileMessages ==
    [role : DialogueRole,
     content : {s_Hi, s_Yo},
     timestamp : {Some(0)},
     audio_file_path : {None, Some(path_of(s_msg_ \o StrOfInt(0) \o s_mp3))}]

\* dialogues built by the program (no id, updated_at set by add_message) and
\* dialogues constructed with an id and a message list
FileDialogues ==
    {[id |-> id, title |-> s_T, context |-> context, level |-> level,
      messages |-> msgs, created_at |-> 0,
      updated_at |-> IF id = None /\ msgs # <<>> THEN Some(0) ELSE None] :
        id \in {None, Some(s_d1)},
        context \in {None, Some(s_cx)},
        level \in {s_beginner, s_advanced},
        msgs \in UNION {[1..n -> FileMessages] : n \in 0..MaxMsgs}}

InitFile ==
    /\ dialogue \in FileDialogues
    /\ now = MaxClock - 2
    /\ audio_dir = {}
    /\ config = SessionConfig
    /\ Idle

NextFile ==
    \/ ExportJson
    \/ ImportJson
    \/ ExportText
    \/ ImportText

SpecFile == InitFile /\ [][NextFile]_vars

----------------------------------------------------------------------------
(* Retention cleanup, on every directory content of a bounded set.         *)

PoolExtensions == <<s_wav, s_mp3, s_txt, s_m4a>>

\* the name of the i-th file of the pool: <i> and an extension
PoolName(i) ==
    StrOfInt(i) \o PoolExtensions[((i - 1) % Len(PoolExtensions)) + 1]

\* every directory holding some of the pool's files, each created at some
\* time in 0..MaxCtime
Directories ==
    {{[name |-> PoolName(i), created_at |-> c[i], data |-> None] :
         i \in {j \in 1..MaxFiles : c[j] >= 0}} :
        c \in [1..MaxFiles -> -1..MaxCtime]}

\* the orders in which os.listdir may name the files of a set of names
RECURSIVE Listings(_)
Listings(names) ==
    IF names = {} THEN {<<>>}
    ELSE UNION {{<<n>> \o l : l \in Listings(names \ {n})} : n \in names}

\* AudioService.cleanup_old_files
CleanupOldFiles(max_files, listing) ==
    LET r == cleanup_old_files(audio_dir, listing, max_files)
    IN  /\ Call("cleanup_old_files",
                [max_files |-> max_files, listing |-> listing])
        /\ audio_dir' = r.dir
        /\ result' = Return(r.deleted_count)
        /\ tts_calls' = <<>>
        /\ llm_calls' = <<>>
        /\ UNCHANGED <<dialogue, json_file, text_file, imported>>

\* AudioService.delete_audio_file
DeleteAudioFile(name) ==
    LET r == delete_audio_file(audio_dir, path_of(name))
    IN  /\ Call("delete_audio_file", [file_path |-> path_of(name)])
        /\ audio_dir' = r.dir
        /\ result' = Return(r.ret)
        /\ tts_calls' = <<>>
        /\ llm_calls' = <<>>
        /\ UNCHANGED <<dialogue, json_file, text_file, imported>>

InitCleanup ==
    /\ dialogue = Dialogue(s_T, None, s_beginner, 0)
    /\ now = MaxClock - 1
    /\ audio_dir \in Directories
    /\ config = SessionConfig
    /\ Idle

NextCleanup ==
    \/ \E max_files \in 0..MaxCap :
           \E listing \in Listings({f.name : f \in audio_dir}) :
               CleanupOldFiles(max_files, listing)
    \/ \E i \in 1..MaxFiles : DeleteAudioFile(PoolName(i))

SpecCleanup == InitCleanup /\ [][NextCleanup]_vars

----------------------------------------------------------------------------
(* Parameter validation, on every input of a bounded set.                  *)

Topics == {None, Some(<<>>), Some(s_Blank), Some(s_T), Some(s_Blank \o s_T)}
LevelInputs == Levels \cup {s_Beginner, <<>>}

\* DialogueService.validate_dialogue_parameters under a configuration whose
\* max_dialogue_length is given
ValidateDialogueParameters(topic, level, num_exchanges, max_dialogue_length) ==
    /\ Call("validate_dialogue_parameters",
            [topic |-> topic, level |-> level, num_exchanges |-> num_exchanges,
             max_dialogue_length |-> max_dialogue_length])
    /\ result' = Return(validate_dialogue_parameters(
                            topic, level, num_exchanges, max_dialogue_length))
    /\ tts_calls' = <<>>
    /\ llm_calls' = <<>>
    /\ UNCHANGED <<dialogue, audio_dir, json_file, text_file, imported>>

InitValidate ==
    /\ dialogue = Dialogue(s_T, None, s_beginner, 0)
    /\ now = MaxClock - 1
    /\ audio_dir = {}
    /\ config = SessionConfig
    /\ Idle

NextValidate ==
    \E topic \in Topics, level \in LevelInputs,
       num_exchanges \in -1..(MaxCap + 1), max_dialogue_length \in 0..MaxCap :
        ValidateDialogueParameters(topic, level, num_exchanges,
                                   max_dialogue_length)

SpecValidate == InitValidate /\ [][NextValidate]_vars

----------------------------------------------------------------------------
(* continue_dialogue, on every dialogue of a bounded set and both LLM      *)
(* clients.                                                                *)

\* dialogues of up to MaxHistory USER and ASSISTANT messages; message i
\* has the content "<i>", so that the contents differ
HistoryDialogues ==
    {[Dialogue(s_T, None, s_beginner, 0) EXCEPT
         !.messages = [i \in 1..Len(roles) |->
                          DialogueMessage(roles[i], StrOfInt(i), 0)],
         !.updated_at = IF roles = <<>> THEN None ELSE Some(0)] :
        roles \in UNION {[1..n -> {USER, ASSISTANT}] : n \in 0..MaxHistory}}

InitContinue ==
    /\ dialogue \in HistoryDialogues
    /\ config \in {[SessionConfig EXCEPT !.llm_provider = provider,
                                         !.gemini_api_key = Some(s_key)] :
                       provider \in LLMProvider}
    /\ now = MaxClock - 1
    /\ audio_dir = {}
    /\ Idle

NextContinue ==
    \E fails \in BOOLEAN : ContinueDialogue(s_Hi, s_Yo \o s_Blank, fails)

SpecContinue == InitContinue /\ [][NextContinue]_vars

----------------------------------------------------------------------------
(* The parsers, on every text of a bounded set: the LLM provider answers   *)
(* with the text, and a file holding the same text is imported as plain    *)
(* text and as Markdown.                                                   *)

l_PersonneA == <<"P","e","r","s","o","n","n","e"," ","A",":"," ","B","o","n","j","o","u","r">>
l_PersonneB == <<"P","e","r","s","o","n","n","e"," ","B",":"," ","S","a","l","u","t">>
l_NoColon == <<"B","o","n","j","o","u","r">>
l_Empty == <<>>
l_EmptyContent == <<"A",":">>
l_EmptyLabel == <<":"," ","x">>
l_Colons == <<"B",":"," ","a",":","b">>
l_Heading == <<"#"," ","T">>
l_Level == <<"*","*","L","e","v","e","l",":","*","*"," ","A","d","v","a","n","c","e","d">>
l_Emphasis == <<"*","*","T","u","t","e","u","r",":","*","*"," ","*","Y","o","*">>
l_Utilisateur == <<"U","t","i","l","i","s","a","t","e","u","r",":"," ","H","i">>
l_Spaces == <<" ","A"," ",":"," ","Y","o"," ">>

LinePool == {l_PersonneA, l_PersonneB, l_NoColon, l_Empty, l_EmptyContent, l_EmptyLabel, l_Colons, l_Heading, l_Level, l_Emphasis, l_Utilisateur, l_Spaces}

\* the texts of 0 to MaxLines lines of the pool
Texts ==
    {JoinLines(lines) : lines \in UNION {[1..n -> LinePool] : n \in 0..MaxLines}}

s_f == <<"f">>

InitParse ==
    /\ dialogue = Dialogue(s_T, None, s_beginner, 0)
    /\ config = SessionConfig
    /\ now = MaxClock - 1
    /\ audio_dir = {}
    /\ json_file = None
    /\ \E content \in Texts :
           text_file = Some([name |-> s_f, content |-> content])
    /\ imported = None
    /\ tts_calls = <<>>
    /\ llm_calls = <<>>
    /\ op = "init"
    /\ args = <<>>
    /\ result = Return(None)
    /\ prev = <<"init", FALSE>>
    /\ session = NoPractice

NextParse ==
    \/ GenerateDialogue(None, text_file[1].content, FALSE)
    \/ ImportText
    \/ ImportMarkdown

SpecParse == InitParse /\ [][NextParse]_vars

----------------------------------------------------------------------------
(* Construction of the services and validation, on every configuration of  *)
(* a bounded set.                                                          *)

\* values of a credential: absent, empty, present
KeyInputs == {None, Some(<<>>), Some(s_key)}

\* DialogueService(config)
CreateDialogueService ==
    /\ Call("DialogueService", <<>>)
    /\ result' = IF create_llm_client(config).raised
                 THEN Raise
                 ELSE Return([llm_client |-> create_llm_client(config).value])
    /\ tts_calls' = <<>>
    /\ llm_calls' = <<>>
    /\ UNCHANGED <<dialogue, audio_dir, json_file, text_file, imported>>

\* AudioService(config); client_fails: the constructor of the TTS client
\* raises
CreateAudioService(client_fails) ==
    /\ Call("AudioService", [client_fails |-> client_fails])
    /\ result' = IF create_tts_client(config, client_fails).raised
                 THEN Raise
                 ELSE Return([tts_client |->
                                 create_tts_client(config, client_fails).value])
    /\ tts_calls' = <<>>
    /\ llm_calls' = <<>>
    /\ UNCHANGED <<dialogue, audio_dir, json_file, text_file, imported>>

\* ConfigManager.validate_config(config)
ValidateConfig ==
    /\ Call("validate_config", <<>>)
    /\ result' = validate_config(config)
    /\ tts_calls' = <<>>
    /\ llm_calls' = <<>>
    /\ UNCHANGED <<dialogue, audio_dir, json_file, text_file, imported>>

InitConfig ==
    /\ dialogue = Dialogue(s_T, None, s_beginner, 0)
    /\ config \in AppConfig(KeyInputs, {MaxCap})
    /\ now = MaxClock - 1
    /\ audio_dir = {}
    /\ Idle

NextConfig ==
    \/ CreateDialogueService
    \/ \E client_fails \in BOOLEAN : CreateAudioService(client_fails)
    \/ ValidateConfig

SpecConfig == InitConfig /\ [][NextConfig]_vars

----------------------------------------------------------------------------
(* The operations that call a provider, with every outcome of the call.    *)

MicrophoneOutcomes == {"ok", "error"}
ListenOutcomes == {"audio", "timeout", "error"}
RecognizeOutcomes == {"text", "unknown_value", "request_error", "error"}

\* STTService.listen_for_speech
ListenForSpeech(microphone, calibrate, listen, recognize) ==
    /\ Call("listen_for_speech",
            [microphone |-> microphone, calibrate |-> calibrate,
             listen |-> listen, recognize |-> recognize])
    /\ result' = listen_for_speech(microphone, calibrate, listen, recognize,
                                   s_Hi)
    /\ tts_calls' = <<>>
    /\ llm_calls' = <<>>
    /\ UNCHANGED <<dialogue, audio_dir, json_file, text_file, imported>>

\* STTService.recognize_from_file
RecognizeFromFile(file, recognize) ==
    /\ Call("recognize_from_file", [file |-> file, recognize |-> recognize])
    /\ result' = recognize_from_file(file, recognize, s_Hi)
    /\ tts_calls' = <<>>
    /\ llm_calls' = <<>>
    /\ UNCHANGED <<dialogue, audio_dir, json_file, text_file, imported>>

\* DialogueService.ask_grammar_question
AskGrammarQuestion(question) ==
    /\ Call("ask_grammar_question", [question |-> question])
    /\ result' = ask_grammar_question(question)
    /\ llm_calls' = <<[prompt |-> s_grammar_prompt \o question,
                       sent |-> llm_client_ask_question(
                                    s_grammar_prompt \o question).sent,
                       response |->
                           IF llm_client_ask_question(
                                  s_grammar_prompt \o question).raised
                           THEN None
                           ELSE Some(llm_client_ask_question(
                                         s_grammar_prompt \o question).value)]>>
    /\ tts_calls' = <<>>
    /\ UNCHANGED <<dialogue, audio_dir, json_file, text_file, imported>>

InitProviders ==
    /\ dialogue = add_message(Dialogue(s_T, None, s_beginner, 0),
                              USER, s_Hi, 0)
    /\ \E provider \in LLMProvider :
           config = [SessionConfig EXCEPT !.llm_provider = provider,
                                          !.gemini_api_key = Some(s_key)]
    /\ now = MaxClock - 2
    /\ audio_dir = {}
    /\ Idle

NextProviders ==
    \/ \E microphone \in MicrophoneOutcomes, calibrate \in MicrophoneOutcomes,
          listen \in ListenOutcomes, recognize \in RecognizeOutcomes :
           ListenForSpeech(microphone, calibrate, listen, recognize)
    \/ \E file \in MicrophoneOutcomes, recognize \in RecognizeOutcomes :
           RecognizeFromFile(file, recognize)
    \/ AskGrammarQuestion(s_Hi)
    \/ \E fails \in BOOLEAN : GenerateDialogue(None, t_PersonneAB, fails)
    \/ \E fails \in BOOLEAN : ContinueDialogue(s_Hi, s_Yo \o s_Blank, fails)
    \/ \E i \in 1..Len(dialogue.messages), outcome \in Outcomes :
           GenerateAudioForMessage(i, outcome)

SpecProviders == InitProviders /\ [][NextProviders]_vars

----------------------------------------------------------------------------
(* generate_audio_for_dialogue on every dialogue of a bounded set, without *)
(* and with a voice_name.                                                  *)

s_voice == <<"v">>

\* values of voice_name: absent, empty, a voice
VoiceInputs == {None, Some(<<>>), Some(s_voice)}

InitVoices ==
    /\ dialogue \in HistoryDialogues
    /\ config = SessionConfig
    /\ now = MaxClock - 1
    /\ audio_dir = {}
    /\ Idle

NextVoices ==
    \E voice_name \in VoiceInputs, fail_at \in 0..Len(dialogue.messages),
       kind \in {"tts_error", "save_error"} :
        /\ fail_at = 0 => kind = "tts_error"
        /\ GenerateAudioForDialogue(voice_name, fail_at, kind)

SpecVoices == InitVoices /\ [][NextVoices]_vars

----------------------------------------------------------------------------
(* The names of the audio files: dialogues are generated one after the     *)
(* other and synthesized, and texts are synthesized without a file name.   *)

s_HiBang == <<"H","i","!">>
s_HiWhat == <<"H","i","?">>

\* texts synthesized without a file name
NameTexts == {s_Hi, s_HiBang, s_HiWhat, s_Yo}

\* AudioService.generate_audio_for_text(text), without voice_name and
\* without filename
GenerateAudioForText(text, outcome) ==
    LET r == generate_audio_for_text(audio_dir, text, None, None, outcome, now)
    IN  /\ Call("generate_audio_for_text", [text |-> text, filename |-> None])
        /\ audio_dir' = r.dir
        /\ tts_calls' = <<[index |-> 0, text |-> r.call.text,
                           voice_name |-> r.call.voice_name,
                           synthesized |-> r.call.synthesized,
                           saved |-> r.call.saved]>>
        /\ llm_calls' = <<>>
        /\ result' = IF r.raised THEN Raise ELSE Return(r.path)
        /\ UNCHANGED <<dialogue, json_file, text_file, imported>>

NextNames ==
    \/ \E text \in LLMTexts : GenerateDialogue(None, text, FALSE)
    \/ GenerateAudioForDialogue(None, 0, "tts_error")
    \/ \E text \in NameTexts, outcome \in Outcomes :
           GenerateAudioForText(text, outcome)

SpecNames == Init /\ [][NextNames]_vars

----------------------------------------------------------------------------
(* Batch synthesis called again and again on one dialogue, each call with  *)
(* every point of failure.                                                 *)

\* dialogues of 0 to MaxMsgs + 1 messages without audio, some of them blank
BatchDialogues ==
    {[Dialogue(s_T, None, s_beginner, 0) EXCEPT
         !.messages = [i \in 1..Len(contents) |->
                          DialogueMessage(IF i % 2 = 1 THEN USER ELSE ASSISTANT,
                                          contents[i], 0)],
         !.updated_at = IF contents = <<>> THEN None ELSE Some(0)] :
        contents \in UNION {[1..n -> {s_Hi, s_Blank}] : n \in 0..(MaxMsgs + 1)}}

InitBatch ==
    /\ dialogue \in BatchDialogues
    /\ config = SessionConfig
    /\ now = 1
    /\ audio_dir = {}
    /\ Idle

NextBatch ==
    \E fail_at \in 0..Len(dialogue.messages),
       kind \in {"tts_error", "save_error"} :
        /\ fail_at = 0 => kind = "tts_error"
        /\ GenerateAudioForDialogue(None, fail_at, kind)

SpecBatch == InitBatch /\ [][NextBatch]_vars

----------------------------------------------------------------------------
(* Synthesis and deletion on one dialogue: the references of the messages  *)
(* and the files of the output directory.                                  *)

NextRefs ==
    \/ GenerateAudioForDialogue(None, 0, "tts_error")
    \/ \E max_files \in 0..1 :
           \E listing \in Listings({f.name : f \in audio_dir}) :
               CleanupOldFiles(max_files, listing)
    \/ \E f \in audio_dir : DeleteAudioFile(f.name)
    \/ CleanupDialogueAudio

SpecRefs == InitBatch /\ [][NextRefs]_vars

----------------------------------------------------------------------------
(* Practice mode: every script run of the tab is a step.                   *)

\* texts entered or heard
PracticeTexts == {s_Hi, s_Yo}

\* run with the button Start Practice Session pressed and a topic entered
StartPracticeSession(topic, level) ==
    /\ ~session.practice_input_to_process
    /\ session.practice_voice_result = <<>>
    /\ PracticeCall("start_practice_session", [topic |-> topic, level |-> level])
    /\ session' = start_practice_session(session, topic, level, now)
    /\ result' = Return(None)
    /\ tts_calls' = <<>>
    /\ llm_calls' = <<>>
    /\ UNCHANGED <<dialogue, audio_dir, json_file, text_file, imported>>

\* run after the learner entered a text: the flag is set
SubmitText(text) ==
    /\ session.practice_dialogue # None
    /\ ~session.practice_input_to_process
    /\ session.practice_voice_result = <<>>
    /\ text # <<>>
    /\ PracticeCall("submit_text", [text |-> text])
    /\ session' = submit_text(session, text)
    /\ result' = Return(None)
    /\ tts_calls' = <<>>
    /\ llm_calls' = <<>>
    /\ UNCHANGED <<dialogue, audio_dir, json_file, text_file, imported>>

\* run with the button Record pressed: listen_for_speech
RecordVoice(microphone, listen, recognize, text) ==
    /\ session.practice_dialogue # None
    /\ ~session.practice_input_to_process
    /\ session.practice_voice_result = <<>>
    /\ PracticeCall("record_voice",
                    [microphone |-> microphone, listen |-> listen,
                     recognize |-> recognize, text |-> text])
    /\ session' = record_voice(session,
                      listen_for_speech(microphone, "ok", listen, recognize,
                                        text))
    /\ result' = Return(None)
    /\ tts_calls' = <<>>
    /\ llm_calls' = <<>>
    /\ UNCHANGED <<dialogue, audio_dir, json_file, text_file, imported>>

\* run that finds a result of the voice input
HandleVoiceResult ==
    /\ session.practice_dialogue # None
    /\ ~session.practice_input_to_process
    /\ session.practice_voice_result # <<>>
    /\ PracticeCall("handle_voice_result",
                    [text |-> session.practice_voice_result])
    /\ session' = handle_voice_result(session)
    /\ result' = Return(None)
    /\ tts_calls' = <<>>
    /\ llm_calls' = <<>>
    /\ UNCHANGED <<dialogue, audio_dir, json_file, text_file, imported>>

\* run that finds the flag set: the processing pass
ProcessPracticeInput(response, llm_fails, audio_fails) ==
    /\ session.practice_dialogue # None
    /\ session.practice_input_to_process
    /\ PracticeCall("process_practice_input",
                    [user_input |-> session.practice_text_input])
    /\ session' = process_practice_input(session, Strip(response), llm_fails,
                                         audio_fails, now)
    /\ llm_calls' = IF input_accepted(session)
                    THEN <<[response |-> IF llm_fails THEN None
                                         ELSE Some(response)]
                           @@ practice_request(session, config, now)>>
                    ELSE <<>>
    /\ tts_calls' = IF input_accepted(session) /\ ~llm_fails
                    THEN <<[index |-> 0, text |-> Strip(response),
                            voice_name |-> None,
                            synthesized |-> ~audio_fails,
                            saved |-> ~audio_fails]>>
                    ELSE <<>>
    /\ result' = Return(None)
    /\ UNCHANGED <<dialogue, audio_dir, json_file, text_file, imported>>

\* the session before, or right after, the start of a practice session
InitPractice ==
    /\ dialogue = Dialogue(s_T, None, s_beginner, 0)
    /\ \E provider \in LLMProvider :
           config = [SessionConfig EXCEPT !.llm_provider = provider,
                                          !.gemini_api_key = Some(s_key)]
    /\ now = 0
    /\ audio_dir = {}
    /\ session \in {NoPractice,
                    start_practice_session(NoPractice, s_T, s_beginner, 0)}
    /\ json_file = None
    /\ text_file = None
    /\ imported = None
    /\ tts_calls = <<>>
    /\ llm_calls = <<>>
    /\ op = "init"
    /\ args = <<>>
    /\ result = Return(None)
    /\ prev = <<"init", FALSE>>

NextPractice ==
    \/ StartPracticeSession(s_T, s_beginner)
    \/ \E text \in PracticeTexts : SubmitText(text)
    \/ \E microphone \in MicrophoneOutcomes, listen \in ListenOutcomes,
          recognize \in RecognizeOutcomes, text \in PracticeTexts \cup {<<>>} :
           RecordVoice(microphone, listen, recognize, text)
    \/ HandleVoiceResult
    \/ \E llm_fails \in BOOLEAN, audio_fails \in BOOLEAN :
           ProcessPracticeInput(s_Yo \o s_Blank, llm_fails, audio_fails)

SpecPractice == InitPractice /\ [][NextPractice]_vars

----------------------------------------------------------------------------
(* Claims C1..C3: export and import, checked under SpecFile                *)

JsonImported == op = "import_dialogue_from_json" /\ ~result.raised
TextImported == op = "import_dialogue_from_text" /\ ~result.raised

\* C1: importing the file written by export_dialogue_to_json(d) yields a
\* dialogue with d's sequence of (role, content) pairs, in the same order,
\* and with d's title, level and context.
C1_JsonRoundTrip ==
    JsonImported =>
        /\ Pairs(imported[1]) = Pairs(dialogue)
        /\ imported[1].title = dialogue.title
        /\ imported[1].level = dialogue.level
        /\ imported[1].context = dialogue.context

\* C1 witness: a dialogue with a context, the level advanced and two messages
\* of different roles and contents, one of them SYSTEM, has been exported and
\* imported
C1_Witness ==
    /\ JsonImported
    /\ dialogue.context # None
    /\ dialogue.level = s_advanced
    /\ Len(dialogue.messages) = 2
    /\ dialogue.messages[1].role = SYSTEM
    /\ dialogue.messages[2].role = USER
    /\ dialogue.messages[1].content # dialogue.messages[2].content
    /\ Len(imported[1].messages) = 2

\* C2: importing the file written by export_dialogue_to_json(d) restores d's
\* id, created_at, updated_at and every message's timestamp and
\* audio_file_path.
C2_JsonRestoresEveryField ==
    JsonImported =>
        /\ imported[1].id = dialogue.id
        /\ imported[1].created_at = dialogue.created_at
        /\ imported[1].updated_at = dialogue.updated_at
        /\ Len(imported[1].messages) = Len(dialogue.messages)
        /\ \A i \in 1..Len(dialogue.messages) :
               /\ imported[1].messages[i].timestamp
                      = dialogue.messages[i].timestamp
               /\ imported[1].messages[i].audio_file_path
                      = dialogue.messages[i].audio_file_path

\* C3: for a dialogue d of USER and ASSISTANT messages, importing the file
\* written by export_dialogue_to_text(d) yields a dialogue with as many
\* messages as d and d's sequence of (role, content) pairs.
C3_TextRoundTrip ==
    (/\ TextImported
     /\ Len(dialogue.messages) >= 1
     /\ \A i \in 1..Len(dialogue.messages) :
            dialogue.messages[i].role \in {USER, ASSISTANT})
    => /\ Len(imported[1].messages) = Len(dialogue.messages)
       /\ Pairs(imported[1]) = Pairs(dialogue)

----------------------------------------------------------------------------
(* Claims C4..C8: the dialogue and its audio, checked under Spec           *)

\* C4: each add_message call increases the message count by exactly one,
\* places the new (role, content) message last, leaves every earlier message
\* and their order unchanged, and sets updated_at to a value not earlier than
\* its previous value.
C4_AddMessageAppendOnly ==
    [][op' = "add_message" =>
          /\ Len(dialogue'.messages) = Len(dialogue.messages) + 1
          /\ dialogue'.messages[Len(dialogue'.messages)].role = args'.role
          /\ dialogue'.messages[Len(dialogue'.messages)].content = args'.content
          /\ SubSeq(dialogue'.messages, 1, Len(dialogue.messages))
                 = dialogue.messages
          /\ dialogue'.updated_at # None
          /\ dialogue.updated_at # None
                 => dialogue'.updated_at[1] >= dialogue.updated_at[1]
      ]_vars

\* C4 witness: add_message has appended a second message, different from the
\* first, to a dialogue whose updated_at was set before
C4_Witness ==
    /\ op = "add_message"
    /\ prev[1] = "add_message"
    /\ Len(dialogue.messages) = 2
    /\ dialogue.messages[1].role # dialogue.messages[2].role
    /\ dialogue.messages[1].content # dialogue.messages[2].content
    /\ dialogue.messages[2].role = args.role
    /\ dialogue.updated_at = Some(now - 1)

FrameOperations ==
    {"generate_audio_for_dialogue", "generate_audio_for_text",
     "cleanup_dialogue_audio", "continue_dialogue", "export_dialogue_to_json",
     "export_dialogue_to_text", "get_dialogue_statistics"}

\* C5: generate_audio_for_dialogue, cleanup_dialogue_audio, continue_dialogue,
\* export_dialogue_to_json, export_dialogue_to_text and
\* get_dialogue_statistics leave updated_at and created_at unchanged, also
\* when they set or clear a message's audio_file_path.
C5_UpdatedAtFrame ==
    [][op' \in FrameOperations =>
          /\ dialogue'.updated_at = dialogue.updated_at
          /\ dialogue'.created_at = dialogue.created_at
      ]_vars

\* C5 witness: generate_audio_for_dialogue has set a message's reference at
\* a time later than updated_at
C5_Witness ==
    /\ op = "generate_audio_for_dialogue"
    /\ tts_calls # <<>>
    /\ \E i \in 1..Len(dialogue.messages) :
           Truthy(dialogue.messages[i].audio_file_path)
    /\ dialogue.updated_at # None
    /\ dialogue.updated_at[1] < now - 1

\* C6: after the LLM response parser or an importer has built a dialogue, no
\* message of it has empty content.
C6_ContentNonEmpty ==
    /\ (op = "generate_dialogue" /\ ~result.raised)
           => \A i \in 1..Len(dialogue.messages) :
                  dialogue.messages[i].content # <<>>
    /\ (JsonImported \/ TextImported)
           => \A i \in 1..Len(imported[1].messages) :
                  imported[1].messages[i].content # <<>>

\* message i carries, after the step, a reference it did not carry before
ReferenceSet(i) ==
    /\ Truthy(dialogue'.messages[i].audio_file_path)
    /\ \/ i > Len(dialogue.messages)
       \/ dialogue.messages[i].audio_file_path
              # dialogue'.messages[i].audio_file_path

\* C7: a newly added or imported message has no audio reference, and a
\* message's reference is set only by a synthesis operation whose TTS call
\* and file write for that message both returned without error.
C7_AudioUnsetUntilSynthesized ==
    [][/\ \A i \in 1..Len(dialogue'.messages) :
              ReferenceSet(i) =>
                  /\ op' \in {"generate_audio_for_dialogue",
                              "generate_audio_for_text"}
                  /\ \E k \in 1..Len(tts_calls') :
                         /\ tts_calls'[k].index = i
                         /\ tts_calls'[k].text = dialogue'.messages[i].content
                         /\ tts_calls'[k].synthesized
                         /\ tts_calls'[k].saved
                  /\ file_exists(audio_dir',
                         name_of(dialogue'.messages[i].audio_file_path[1]))
       /\ op' = "add_message" =>
              dialogue'.messages[Len(dialogue'.messages)].audio_file_path = None
       /\ op' = "generate_dialogue" /\ ~result'.raised =>
              \A i \in 1..Len(dialogue'.messages) :
                  dialogue'.messages[i].audio_file_path = None
       /\ imported' # None =>
              \A i \in 1..Len(imported'[1].messages) :
                  imported'[1].messages[i].audio_file_path = None
      ]_vars

\* C7 witness: generate_audio_for_dialogue raised at its second message: the
\* first message has its reference, the second, whose file write failed,
\* has none
C7_Witness ==
    /\ op = "generate_audio_for_dialogue"
    /\ result.raised
    /\ Len(dialogue.messages) = 2
    /\ Truthy(dialogue.messages[1].audio_file_path)
    /\ dialogue.messages[2].audio_file_path = None
    /\ Len(tts_calls) = 2
    /\ tts_calls[2].synthesized
    /\ ~tts_calls[2].saved

\* C8: after a generate_audio_for_dialogue call that returned normally, a
\* second call makes no TTS call for a message that already carries a
\* reference and leaves every audio_file_path unchanged.
C8_BatchSynthesisIdempotent ==
    [][(/\ op = "generate_audio_for_dialogue"
        /\ ~result.raised
        /\ op' = "generate_audio_for_dialogue")
       => /\ \A k \in 1..Len(tts_calls') :
                 ~Truthy(dialogue.messages[tts_calls'[k].index].audio_file_path)
          /\ Len(dialogue'.messages) = Len(dialogue.messages)
          /\ \A i \in 1..Len(dialogue.messages) :
                 dialogue'.messages[i].audio_file_path
                     = dialogue.messages[i].audio_file_path
      ]_vars

\* C8 witness: a second generate_audio_for_dialogue call has returned, right
\* after a first one that returned normally, on a dialogue with references
C8_Witness ==
    /\ op = "generate_audio_for_dialogue"
    /\ prev = <<"generate_audio_for_dialogue", FALSE>>
    /\ ~result.raised
    /\ tts_calls = <<>>
    /\ Len(dialogue.messages) = 2
    /\ \A i \in 1..2 : Truthy(dialogue.messages[i].audio_file_path)

----------------------------------------------------------------------------
(* Claim C9: retention cleanup, checked under SpecCleanup                  *)

\* the audio files of a directory: those named *.mp3, *.wav or *.m4a
AudioFilesOf(dir) ==
    {f \in dir : EndsWith(f.name, s_mp3) \/ EndsWith(f.name, s_wav)
                 \/ EndsWith(f.name, s_m4a)}

\* C9: when the directory holds count audio files and count > max_files,
\* for a cap max_files >= 0 (the values NextCleanup draws),
\* cleanup_old_files(max_files) deletes exactly count - max_files of them,
\* every remaining audio file is at least as new as every deleted one, and
\* it returns count - max_files; when count <= max_files it deletes nothing
\* and returns 0.
C9_RetentionCleanup ==
    [][op' = "cleanup_old_files" =>
          LET before == AudioFilesOf(audio_dir)
              after == AudioFilesOf(audio_dir')
              count == Cardinality(before)
              max_files == args'.max_files
          IN  IF count > max_files
              THEN /\ after \subseteq before
                   /\ Cardinality(before \ after) = count - max_files
                   /\ audio_dir \ audio_dir' = before \ after
                   /\ audio_dir' \subseteq audio_dir
                   /\ \A kept \in after, deleted \in before \ after :
                          kept.created_at >= deleted.created_at
                   /\ result'.value = count - max_files
              ELSE /\ audio_dir' = audio_dir
                   /\ result'.value = 0
      ]_vars

\* C9 witness: cleanup_old_files(1) has deleted two of three audio files,
\* the file it kept is newer than a file that is gone, and the file that is
\* no audio file is still there
C9_Witness ==
    /\ op = "cleanup_old_files"
    /\ args.max_files = 1
    /\ result.value = 2
    /\ Len(args.listing) = 4
    /\ Cardinality(AudioFilesOf(audio_dir)) = 1
    /\ Cardinality(audio_dir) = 2
    /\ \A f \in AudioFilesOf(audio_dir) : f.created_at = MaxCtime

----------------------------------------------------------------------------
(* Claim C10: parameter validation, checked under SpecValidate             *)

\* the topic is a string with a character that is no white space
TopicGiven(topic) ==
    /\ topic # None
    /\ \E i \in 1..Len(topic[1]) : topic[1][i] \notin {" ", NL}

\* the number of rules the arguments violate
RulesViolated(a) ==
    (IF TopicGiven(a.topic) THEN 0 ELSE 1)
    + (IF a.level \in {s_beginner, s_intermediate, s_advanced} THEN 0 ELSE 1)
    + (IF 1 <= a.num_exchanges /\ a.num_exchanges <= a.max_dialogue_length
       THEN 0 ELSE 1)

\* C10: validate_dialogue_parameters returns valid = true if and only if the
\* topic is non-blank, the level is one of beginner/intermediate/advanced and
\* 1 <= num_exchanges <= max_dialogue_length; otherwise the errors list
\* holds exactly one entry per violated rule.
C10_ValidateParameters ==
    op = "validate_dialogue_parameters" =>
        LET r == result.value
            has(e) == \E i \in 1..Len(r.errors) : r.errors[i] = e
        IN  /\ r.valid <=> RulesViolated(args) = 0
            /\ Len(r.errors) = RulesViolated(args)
            /\ has(e_topic) <=> ~TopicGiven(args.topic)
            /\ has(e_level) <=>
                   args.level \notin {s_beginner, s_intermediate, s_advanced}
            /\ has(e_exchanges) <=>
                   ~(1 <= args.num_exchanges
                     /\ args.num_exchanges <= args.max_dialogue_length)

\* C10 witness: a call with a blank topic, a level outside the set and
\* num_exchanges = 0 has returned invalid with three errors
C10_Witness ==
    /\ op = "validate_dialogue_parameters"
    /\ args.topic = Some(s_Blank)
    /\ args.level = s_Beginner
    /\ args.num_exchanges = 0
    /\ args.max_dialogue_length = MaxCap
    /\ ~result.value.valid
    /\ Len(result.value.errors) = 3

----------------------------------------------------------------------------
(* Claim C11: validation before generation, checked under Spec             *)

\* C11: a generate_dialogue request with num_exchanges = 0 or
\* num_exchanges > max_dialogue_length makes no call to the LLM provider and
\* returns no Dialogue.
C11_InvalidRequestGeneratesNothing ==
    (/\ op = "generate_dialogue"
     /\ args.num_exchanges # None
     /\ \/ args.num_exchanges[1] = 0
        \/ args.num_exchanges[1] > config.max_dialogue_length)
    => /\ llm_calls = <<>>
       /\ result.raised

----------------------------------------------------------------------------
(* Claim C12: the context window, checked under SpecContinue               *)

\* C12: the request continue_dialogue sends holds the last 6 messages of the
\* dialogue (all of them when there are fewer), in their order, and for a
\* dialogue of n > 6 messages none of the first n - 6, with the OpenAI and
\* with the Gemini client.
C12_ContextWindow ==
    op = "continue_dialogue" =>
        LET n == Len(dialogue.messages)
            k == IF n < 6 THEN n ELSE 6
            req == llm_calls[1]
        IN  /\ Len(llm_calls) = 1
            /\ req.provider = config.llm_provider
            /\ IF req.provider = OPENAI
               THEN /\ Len(req.messages) = k + 2
                    /\ \A j \in 1..k :
                           req.messages[j + 1].content
                               = dialogue.messages[n - k + j].content
                    /\ \A i \in 1..(n - k), j \in 2..Len(req.messages) :
                           req.messages[j].content
                               # dialogue.messages[i].content
               ELSE LET lines == SplitLines(req.conversation_history)
                    IN  /\ Len(lines) = k + 1
                        /\ \A j \in 1..k :
                               EndsWith(lines[j],
                                   s_ColonSpace
                                   \o dialogue.messages[n - k + j].content)
                        /\ \A i \in 1..(n - k) :
                               ~HasSub(dialogue.messages[i].content,
                                       req.conversation_history)

\* C12 witness: the Gemini client has been asked to continue a dialogue of
\* seven messages and its prompt's history starts with the second
C12_Witness ==
    /\ op = "continue_dialogue"
    /\ config.llm_provider = GEMINI
    /\ Len(dialogue.messages) = 7
    /\ dialogue.messages[2].role = USER
    /\ SubSeq(llm_calls[1].conversation_history, 1,
              Len(s_Utilisateur) + 4)
           = s_Utilisateur \o s_ColonSpace \o StrOfInt(2) \o <<NL>>

----------------------------------------------------------------------------
(* Claims C13..C15: the parsers, checked under SpecParse                   *)

\* the answer of the LLM provider in the last call, None when it failed
llm_response == llm_calls[1].response

\* the lines of the answer that hold a colon, in order
ColonLines(text) ==
    SelectSeq(SplitLines(text), LAMBDA line : Contains(line, ":"))

\* C13: the LLM response parser turns each line that holds a colon into one
\* message, in order: its role is USER when the text before the first colon
\* holds the letter A and ASSISTANT otherwise, its content is the trimmed
\* text after the first colon; the answer "Personne A: Bonjour" then
\* "Personne B: Salut" gives USER "Bonjour" and ASSISTANT "Salut".
C13_ColonLineBecomesMessage ==
    (/\ op = "generate_dialogue"
     /\ llm_response # None
     /\ ~result.raised)
    => /\ Pairs(dialogue)
          = [i \in 1..Len(ColonLines(llm_response[1])) |->
                <<IF Contains(Split1(ColonLines(llm_response[1])[i], ":")[1],
                              "A")
                  THEN USER ELSE ASSISTANT,
                  Strip(Split1(ColonLines(llm_response[1])[i], ":")[2])>>]
       /\ llm_response[1] = t_PersonneAB
          => Pairs(dialogue) = <<<<USER, <<"B","o","n","j","o","u","r">>>>,
                                 <<ASSISTANT, <<"S","a","l","u","t">>>>>>

\* C13 witness: the provider has answered with the two lines of the example
\* and the dialogue holds two messages.
C13_Witness ==
    /\ op = "generate_dialogue"
    /\ llm_response = Some(t_PersonneAB)
    /\ ~result.raised
    /\ Len(dialogue.messages) = 2

\* the lines of a text that are not empty once trimmed
NonEmptyLines(text) ==
    SelectSeq(SplitLines(text), LAMBDA line : Strip(line) # <<>>)

\* C14: the LLM response parser does not discard a line without a colon:
\* the parsed dialogue has as many messages as the answer has non-empty
\* lines.
C14_NoLineDiscarded ==
    (/\ op = "generate_dialogue"
     /\ llm_response # None
     /\ ~result.raised)
    => Len(dialogue.messages) = Len(NonEmptyLines(llm_response[1]))

\* C15: parsing never raises: on every text the LLM response parser, the
\* plain-text importer and the Markdown importer return a Dialogue.
C15_ParsingNeverRaises ==
    /\ (op = "generate_dialogue" /\ llm_response # None)
       => /\ ~result.raised
          /\ dialogue.title = s_T
    /\ (/\ op \in {"import_dialogue_from_text",
                   "import_dialogue_from_markdown"}
        /\ text_file # None)
       => /\ ~result.raised
          /\ imported # None

\* C15 witness: a text whose only line has an empty speaker label and a
\* line without a colon has been imported as Markdown.
C15_Witness ==
    /\ op = "import_dialogue_from_markdown"
    /\ text_file = Some([name |-> s_f,
                         content |-> JoinLines(<<l_EmptyLabel, l_NoColon>>)])
    /\ ~result.raised
    /\ imported # None
    /\ imported[1].messages = <<>>

----------------------------------------------------------------------------
(* Claims C16, C17: credentials, checked under SpecConfig                  *)

\* the credential of the selected LLM provider is absent or empty
LlmKeyMissing ==
    \/ config.llm_provider = OPENAI /\ ~Truthy(config.openai_api_key)
    \/ config.llm_provider = GEMINI /\ ~Truthy(config.gemini_api_key)

\* Azure is selected and its key or its region is absent or empty
AzureKeyMissing ==
    /\ config.tts_provider = AZURE
    /\ ~Truthy(config.azure_speech_key) \/ ~Truthy(config.azure_speech_region)

\* C16: construction fails fast: DialogueService raises, and creates no LLM
\* client, when the key of the selected LLM provider is absent;
\* AudioService raises when Azure is selected and its key or region is
\* absent; a missing credential of a provider that is not selected never
\* makes a construction fail.
C16_ConstructionFailsFast ==
    /\ op = "DialogueService"
       => /\ LlmKeyMissing => result.raised /\ result.value = None
          /\ ~LlmKeyMissing
             => /\ ~result.raised
                /\ result.value.llm_client.provider = config.llm_provider
    /\ op = "AudioService"
       => /\ AzureKeyMissing => result.raised
          /\ (~AzureKeyMissing /\ ~args.client_fails) => ~result.raised

\* C16 witness: OpenAI is selected with its key and the Gemini key is
\* absent, and the DialogueService has been constructed.
C16_Witness ==
    /\ op = "DialogueService"
    /\ config.llm_provider = OPENAI
    /\ config.openai_api_key = Some(s_key)
    /\ config.gemini_api_key = None
    /\ ~result.raised

\* C17: validate_config raises exactly when a credential of a selected
\* provider is missing, and returns true otherwise, for every combination
\* of LLM and TTS providers.
C17_ValidateExactlySelected ==
    op = "validate_config"
    => /\ result.raised <=> (LlmKeyMissing \/ AzureKeyMissing)
       /\ ~result.raised => result.value = TRUE

\* C17 witness: OpenAI is selected with its key, Azure is selected without
\* its region, and validate_config has raised.
C17_Witness ==
    /\ op = "validate_config"
    /\ config.llm_provider = OPENAI
    /\ config.openai_api_key = Some(s_key)
    /\ config.tts_provider = AZURE
    /\ config.azure_speech_key = Some(s_key)
    /\ config.azure_speech_region = None
    /\ result.raised

----------------------------------------------------------------------------
(* Claims C18, C19: provider errors, checked under SpecProviders           *)

\* the call of the LLM client made by the last operation failed
LlmCallFailed == llm_calls # <<>> /\ llm_calls[1].response = None

\* the request to the TTS provider made by the last operation failed
TtsCallFailed == \E k \in 1..Len(tts_calls) : ~tts_calls[k].synthesized

\* the request to the speech recognizer made by the last operation failed
SttCallFailed ==
    \/ /\ op = "listen_for_speech"
       /\ args.microphone = "ok"
       /\ args.listen = "audio"
       /\ args.recognize \in {"request_error", "error"}
    \/ /\ op = "recognize_from_file"
       /\ args.file = "ok"
       /\ args.recognize \in {"request_error", "error"}

\* C18: provider errors are never swallowed: an operation of the dialogue,
\* audio or speech service whose LLM, TTS or STT provider call failed
\* raises; none returns a normal result after the failure.
C18_ProviderErrorRaised ==
    (LlmCallFailed \/ TtsCallFailed \/ SttCallFailed) => result.raised

\* C19: listen_for_speech and recognize_from_file return None, without
\* raising, when no speech starts within the timeout or the speech is
\* unintelligible; they raise when the recognition request fails; they
\* return a text only when the recognition succeeded.
C19_AbsentResultOrError ==
    /\ op = "listen_for_speech"
       => /\ (args.microphone = "ok" /\ args.listen = "timeout")
             => result = Return(None)
          /\ (/\ args.microphone = "ok"
              /\ args.listen = "audio"
              /\ args.recognize = "unknown_value")
             => result = Return(None)
          /\ (/\ args.microphone = "ok"
              /\ args.listen = "audio"
              /\ args.recognize = "request_error")
             => result.raised
          /\ (~result.raised /\ result.value # None)
             <=> (/\ args.microphone = "ok"
                  /\ args.listen = "audio"
                  /\ args.recognize = "text")
    /\ op = "recognize_from_file"
       => /\ (args.file = "ok" /\ args.recognize = "unknown_value")
             => result = Return(None)
          /\ (args.file = "ok" /\ args.recognize = "request_error")
             => result.raised
          /\ (~result.raised /\ result.value # None)
             <=> (args.file = "ok" /\ args.recognize = "text")

\* C19 witness: the recognition request of listen_for_speech has failed
\* after the speech was recorded, and the operation has raised.
C19_Witness ==
    /\ op = "listen_for_speech"
    /\ args.microphone = "ok"
    /\ args.listen = "audio"
    /\ args.recognize = "request_error"
    /\ result.raised

----------------------------------------------------------------------------
(* Claim C20: voices, checked under SpecVoices                             *)

\* every request of the last call carries the voice of its message's role,
\* and requests of a USER and an ASSISTANT message carry different voices
VoicesFollowRoles ==
    /\ \A k \in 1..Len(tts_calls) :
           tts_calls[k].voice_name
           = Some(RoleValue(dialogue.messages[tts_calls[k].index].role))
    /\ \A j, k \in 1..Len(tts_calls) :
           dialogue.messages[tts_calls[j].index].role
           # dialogue.messages[tts_calls[k].index].role
           => tts_calls[j].voice_name # tts_calls[k].voice_name

----------------------------------------------------------------------------
(* Claim C21: file names, checked under SpecNames                          *)

\* C21: the names of the audio files do not collide: no call of
\* generate_audio_for_dialogue, and no call of generate_audio_for_text
\* without a file name, writes its audio over the file that holds the
\* audio of another text.
C21_NoFileOverwritten ==
    [][(/\ op' \in {"generate_audio_for_dialogue", "generate_audio_for_text"}
        /\ op' = "generate_audio_for_text" => args'.filename = None)
       => \A f \in audio_dir, g \in audio_dir' :
              f.name = g.name => f.data.text = g.data.text]_vars

----------------------------------------------------------------------------
(* Claim C22: the grammar question, checked under SpecProviders            *)

\* C22: ask_grammar_question sends the question to the client of the
\* selected LLM provider, and returns the answer of the provider when it
\* answers.
C22_QuestionPassedThrough ==
    op = "ask_grammar_question"
    => /\ llm_calls # <<>>
       /\ llm_calls[1].sent
       /\ HasSub(args.question, llm_calls[1].prompt)
       /\ llm_calls[1].response # None
          => result = Return(llm_calls[1].response[1])

----------------------------------------------------------------------------
(* Claims C23, C24: the roles of plain-text import, checked under          *)
(* SpecParse                                                               *)

\* the sequence of the roles of a dialogue
Roles(d) == [i \in 1..Len(d.messages) |-> d.messages[i].role]

\* a line "Speaker: message" with a speaker and a message
IsSpeakerLine(line) ==
    /\ Contains(line, ":")
    /\ Strip(Split1(line, ":")[1]) # <<>>
    /\ Strip(Split1(line, ":")[2]) # <<>>

\* C23: plain-text import classifies the speakers as the LLM response
\* parser does: on every text made of "Speaker: message" lines both give
\* the same sequence of roles.
C23_ImportMirrorsParser ==
    (/\ op = "import_dialogue_from_text"
     /\ ~result.raised
     /\ \A i \in 1..Len(SplitLines(text_file[1].content)) :
            IsSpeakerLine(SplitLines(text_file[1].content)[i]))
    => Roles(imported[1])
       = Roles(parse_dialogue_response(text_file[1].content, s_T, None,
                                       s_beginner, now))

\* a non-empty line without a colon, or whose speaker label holds no
\* keyword of either set
IsUnlabeled(line) ==
    \/ ~Contains(line, ":")
    \/ ~AnyWordIn(UserWords \cup AssistantWords,
                  Lower(Strip(Split1(line, ":")[1])))

\* C24: in plain-text import every non-empty line becomes a message, and an
\* unlabeled line gets the role opposite to the role of the message added
\* before it, ASSISTANT being taken as that role when there is none: an
\* unlabeled first line is USER and consecutive unlabeled lines alternate.
C24_UnlabeledLinesAlternate ==
    (op = "import_dialogue_from_text" /\ ~result.raised)
    => /\ Len(imported[1].messages)
          = Len(NonEmptyLines(text_file[1].content))
       /\ \A k \in 1..Len(imported[1].messages) :
              IsUnlabeled(NonEmptyLines(text_file[1].content)[k])
              => imported[1].messages[k].role
                 = IF k = 1 THEN USER
                   ELSE IF imported[1].messages[k - 1].role = ASSISTANT
                   THEN USER ELSE ASSISTANT

\* C24 witness: a text of two lines without a colon has been imported, the
\* first as USER and the second as ASSISTANT.
C24_Witness ==
    /\ op = "import_dialogue_from_text"
    /\ ~result.raised
    /\ text_file[1].content = JoinLines(<<l_NoColon, l_NoColon>>)
    /\ Roles(imported[1]) = <<USER, ASSISTANT>>

----------------------------------------------------------------------------
(* Claim C25: the two checks of the credentials, checked under SpecConfig  *)

\* C25: validate_config and the constructors agree: on a configuration
\* that validate_config accepts, DialogueService and AudioService are
\* constructed without a missing-credential error; on a configuration that
\* validate_config rejects, the construction of one of the two raises.
C25_ChecksAgree ==
    /\ (op = "DialogueService" /\ ~validate_config(config).raised)
       => ~result.raised
    /\ (/\ op = "AudioService"
        /\ ~validate_config(config).raised
        /\ ~args.client_fails)
       => ~result.raised
    /\ (op = "validate_config" /\ result.raised)
       => \/ create_llm_client(config).raised
          \/ create_tts_client(config, FALSE).raised
    /\ (op = "validate_config" /\ ~result.raised)
       => /\ ~create_llm_client(config).raised
          /\ ~create_tts_client(config, FALSE).raised

\* C25 witness: validate_config has rejected a configuration whose LLM key
\* is present and whose Azure region is absent.
C25_Witness ==
    /\ op = "validate_config"
    /\ result.raised
    /\ ~LlmKeyMissing
    /\ AzureKeyMissing
    /\ create_tts_client(config, FALSE).raised

----------------------------------------------------------------------------
(* Claim C26: a failure in the middle of a batch, checked under SpecBatch  *)

\* message i was synthesized and saved by the call that leads to the next
\* state
SavedNow(i) ==
    \E k \in 1..Len(tts_calls') :
        tts_calls'[k].index = i /\ tts_calls'[k].saved

\* C26: when the synthesis or the saving of message k fails during
\* generate_audio_for_dialogue the call raises, the messages synthesized
\* before k in this call keep their new reference, and message k and the
\* later ones keep the reference they had; a call synthesizes only messages
\* that lack a reference, so no message is successfully synthesized twice
\* and no audio file is written twice.
C26_PartialFailureKeepsProgress ==
    [][op' = "generate_audio_for_dialogue"
       => /\ Len(dialogue'.messages) = Len(dialogue.messages)
          /\ \A k \in 1..Len(tts_calls') :
                 /\ ~Truthy(dialogue.messages[tts_calls'[k].index].audio_file_path)
                 /\ ~tts_calls'[k].saved
                    => /\ k = Len(tts_calls')
                       /\ result'.raised
          /\ result'.raised
             => /\ tts_calls' # <<>>
                /\ ~tts_calls'[Len(tts_calls')].saved
          /\ \A i \in 1..Len(dialogue.messages) :
                 IF SavedNow(i)
                 THEN /\ Truthy(dialogue'.messages[i].audio_file_path)
                      /\ file_exists(audio_dir',
                             name_of(dialogue'.messages[i].audio_file_path[1]))
                      /\ result'.raised
                         => i < tts_calls'[Len(tts_calls')].index
                 ELSE dialogue'.messages[i].audio_file_path
                          = dialogue.messages[i].audio_file_path
          /\ audio_dir \subseteq audio_dir'
      ]_vars

\* C26 witness: a call has failed on the second of three messages after
\* the first was saved, and the next call has synthesized the second and
\* the third only.
C26_Witness ==
    /\ op = "generate_audio_for_dialogue"
    /\ prev = <<"generate_audio_for_dialogue", TRUE>>
    /\ ~result.raised
    /\ Len(dialogue.messages) = 3
    /\ Len(tts_calls) = 2
    /\ tts_calls[1].index = 2
    /\ tts_calls[2].index = 3
    /\ \A i \in 1..3 : Truthy(dialogue.messages[i].audio_file_path)
    /\ \E f \in audio_dir :
           /\ f.name = name_of(dialogue.messages[1].audio_file_path[1])
           /\ f.created_at < now - 1

----------------------------------------------------------------------------
(* Claim C27: references and files, checked under SpecRefs                 *)

\* C27: after any sequence of generate_audio_for_dialogue,
\* cleanup_old_files, delete_audio_file and cleanup_dialogue_audio calls,
\* every message whose audio_file_path is set names a file that exists in
\* the output directory.
C27_ReferencedFilesExist ==
    \A i \in 1..Len(dialogue.messages) :
        Truthy(dialogue.messages[i].audio_file_path)
        => file_exists(audio_dir,
                       name_of(dialogue.messages[i].audio_file_path[1]))

----------------------------------------------------------------------------
(* Claims C28..C30: practice mode, checked under SpecPractice              *)

\* C28: in practice mode the displayed history and the Dialogue stay
\* aligned after every run, whether the LLM call or the synthesis succeeds
\* or fails: the (role, content) sequence of practice_messages is that of
\* practice_dialogue.messages; starting a session empties both.
C28_HistoryAligned ==
    /\ session.practice_dialogue = None => session.practice_messages = <<>>
    /\ session.practice_dialogue # None
       => [i \in 1..Len(session.practice_messages) |->
              <<session.practice_messages[i].role,
                session.practice_messages[i].content>>]
          = [i \in 1..Len(session.practice_dialogue[1].messages) |->
                <<RoleValue(session.practice_dialogue[1].messages[i].role),
                  session.practice_dialogue[1].messages[i].content>>]
    /\ op = "start_practice_session"
       => /\ session.practice_messages = <<>>
          /\ session.practice_dialogue # None
          /\ session.practice_dialogue[1].messages = <<>>

\* C28 witness: a processing pass whose LLM call failed has left three
\* entries in the history, the last one of the user.
C28_Witness ==
    /\ op = "process_practice_input"
    /\ llm_calls # <<>>
    /\ llm_calls[1].response = None
    /\ Len(session.practice_messages) = 3
    /\ session.practice_messages[3].role = s_user
    /\ Len(session.practice_dialogue[1].messages) = 3

\* the Dialogue of the session as it was before the last processing pass
\* added the input (and the answer, when the LLM answered)
DialogueBeforeInput ==
    [session.practice_dialogue[1] EXCEPT
        !.messages = SubSeq(@, 1,
                            Len(@) - (IF llm_calls[1].response = None
                                      THEN 1 ELSE 2))]

\* C29: the request that practice mode builds for the LLM provider holds
\* the new input once, after a window of at most 6 messages that all
\* preceded this input.
C29_InputSentOnce ==
    (op = "process_practice_input" /\ llm_calls # <<>>)
    => IF config.llm_provider = OPENAI
       THEN llm_calls[1].messages
            = openai_continue_request(DialogueBeforeInput,
                                      args.user_input).messages
       ELSE /\ llm_calls[1].user_input = args.user_input
            /\ llm_calls[1].conversation_history
               = conversation_history(history_window(DialogueBeforeInput), 1)

\* C30: every processing pass of a submitted input adds exactly one USER
\* message with the input, and at most one ASSISTANT message after it, and
\* leaves the flag false and the text input empty; also when the input is
\* the text of the learner's previous message.
C30_ProcessedExactlyOnce ==
    [][op' = "process_practice_input"
       => /\ Len(session'.practice_dialogue[1].messages)
             \in {Len(session.practice_dialogue[1].messages) + 1,
                  Len(session.practice_dialogue[1].messages) + 2}
          /\ SubSeq(session'.practice_dialogue[1].messages, 1,
                    Len(session.practice_dialogue[1].messages))
             = session.practice_dialogue[1].messages
          /\ Pairs(session'.practice_dialogue[1])
                [Len(session.practice_dialogue[1].messages) + 1]
             = <<USER, session.practice_text_input>>
          /\ Len(session'.practice_dialogue[1].messages)
             = Len(session.practice_dialogue[1].messages) + 2
             => session'.practice_dialogue[1].messages
                    [Len(session'.practice_dialogue[1].messages)].role
                = ASSISTANT
          /\ ~session'.practice_input_to_process
          /\ session'.practice_text_input = <<>>
      ]_vars

====
